---- MODULE Spec2Model ----
(***************************************************************************)
(* A model of the FileSystem facade (filesystem/FileSystem.js): the       *)
(* change barrier and the queue of external changes, the handling of      *)
(* external changes, the registry of watched roots, the queue of          *)
(* watch/unwatch requests and the index of entries.                       *)
(*                                                                         *)
(* Paths are sequences of one-character strings, so that the string       *)
(* operations of the source (indexOf, split, join) are modelled on the    *)
(* characters.  JavaScript runs every handler to completion; a handler    *)
(* is one action.  The one place where client code runs in the middle of  *)
(* a handler is a "change" listener called while the queued external      *)
(* changes are replayed: the replay is modelled one array element at a    *)
(* time, with the listener's calls into the facade in between.            *)
(***************************************************************************)
EXTENDS Integers, Sequences, FiniteSets, TLC

VARIABLES
    activeChangeCount,  \* FileSystem.prototype._activeChangeCount
    externalChanges,    \* FileSystem.prototype._externalChanges
    replay,             \* call stack of running _triggerExternalChangesNow forEach loops
    inListener,         \* a "change" listener called from the replay is running
    handled,            \* ids of the change records passed to _handleExternalChange, in call order
    nextChangeId,       \* number of change records the backend has reported
    pendingListings,    \* directory.getContents calls of _handleDirectoryChange not yet completed
    copies,             \* copy calls whose backend copy or directory listing has not completed
    watchedRoots,       \* FileSystem.prototype._watchedRoots, in key (insertion) order
    watchRequests,      \* FileSystem.prototype._watchRequests
    nextRootId,         \* number of WatchedRoot objects constructed
    backendCalls,       \* the requests given to the backend whose completion has not come
    completing,         \* the request whose callback requestCb is running (NoRequest if none)
    index,              \* paths of the entries of FileSystem.prototype._index
    doNotRemove,        \* paths given to alwaysIndex
    entryStat,          \* entry._stat of each indexed entry (its mtime, NoStat when not cached)
    contents,           \* directory._contents of each directory entry (NoContents when not cached)
    disk,               \* the paths that exist in the backend's storage
    fileEntries,        \* the paths of the indexed entries that are File objects (entry.isFile)
    fileProtocolPlugins,\* _fileProtocolPlugins: the adapters registered for each protocol
    freePathSearch,     \* the getFreePath call under way: its argument and its loop
    fired,              \* the events triggered by the last handler, in order
    called              \* the client callbacks invoked by the last handler, in order

vars == <<activeChangeCount, externalChanges, replay, inListener, handled, nextChangeId,
          pendingListings, copies, watchedRoots, watchRequests, nextRootId, index, doNotRemove,
          entryStat, contents, disk, fileEntries, fileProtocolPlugins, freePathSearch,
          fired, called, backendCalls, completing>>

barrierVars == <<activeChangeCount, externalChanges, replay, inListener, handled,
                 nextChangeId, pendingListings, copies>>
watchVars == <<watchedRoots, watchRequests, nextRootId, backendCalls, completing>>
lookupVars == <<fileProtocolPlugins, freePathSearch>>

(***************************************************************************)
(* Bounds of the model.                                                    *)
(***************************************************************************)
MaxWatchCalls == 3      \* WatchedRoot objects constructed in a behaviour
MaxQueue == 3           \* watch/unwatch requests queued at a time
MaxChanges == 3         \* change records reported by the backend in a behaviour
MaxHandled == 3         \* calls of _handleExternalChange recorded in a behaviour
MaxDepth == 2           \* nested _triggerExternalChangesNow calls
MaxAdapters == 4       \* adapters registered, the two of RemoteFile included
MaxCount == 2           \* mutations in flight at a time
MaxListings == 2        \* directory listings in flight at a time
MaxCopies == 2          \* copy calls in progress at a time
MaxUnmatched == 2       \* _endChange calls without a _beginChange

(***************************************************************************)
(* Paths.                                                                  *)
(***************************************************************************)
P   == <<"/", "p", "/">>                        \* directory /p/
PA  == <<"/", "p", "/", "a">>                   \* file /p/a
PN  == <<"/", "p", "/", "n">>                   \* file /p/n
PD  == <<"/", "p", "/", "d", "/">>              \* directory /p/d/
PDA == <<"/", "p", "/", "d", "/", "a">>         \* file /p/d/a
PDE == <<"/", "p", "/", "d", "/", "e", "/">>    \* directory /p/d/e/
PC  == <<"/", "p", "/", "c", "/">>              \* directory /p/c/
Q   == <<"/", "q", "/">>                        \* directory /q/
QB  == <<"/", "q", "/", "b">>                   \* file /q/b
PNoSlash == <<"/", "p">>                        \* /p, the directory /p/ named without its separator

DirPaths == {P, PD, PDE, PC, Q}
FilePaths == {PA, PN, PDA, QB}
EntryPaths == DirPaths \cup FilePaths

Null == <<>>            \* the null path of a wholesale change
NoStat == 0             \* entry._stat is undefined
NoContents == {Null}    \* directory._contents is undefined
NoId == -1               \* no WatchedRoot object
NoRoot == [path |-> Null, id |-> NoId, status |-> "none"]

INACTIVE == "INACTIVE"  \* WatchedRoot.INACTIVE
STARTING == "STARTING"  \* WatchedRoot.STARTING
ACTIVE == "ACTIVE"      \* WatchedRoot.ACTIVE

NoError == "null"
BackendError == "BackendError"
NOT_FOUND == "NotFound"                  \* FileSystemError.NOT_FOUND
TOO_MANY_ENTRIES == "TooManyEntries"     \* FileSystemError.TOO_MANY_ENTRIES
MAX_DEDUPE_NUMBER == 1000
ROOT_NOT_WATCHED == "RootNotWatched"
ParentWatched == "A parent of this root is already watched"
ChildWatched == "A child of this root is already watched"

(***************************************************************************)
(* Helpers on sequences.                                                   *)
(***************************************************************************)
Range(s) == {s[i] : i \in 1..Len(s)}

\* s.indexOf(t) === 0 : t is a prefix of s
indexOfIsZero(s, t) ==
    /\ Len(t) <= Len(s)
    /\ SubSeq(s, 1, Len(t)) = t

Min(S) == CHOOSE x \in S : \A y \in S : x <= y

(***************************************************************************)
(* Path normalization.                                                     *)
(***************************************************************************)
Invalid == <<"Error">>      \* the outcome of a call that throws

\* the backend's normalizeUNCPaths flag
implNormalizeUNCPaths == FALSE

isAbsolutePath(fullPath) ==
    \/ Len(fullPath) >= 1 /\ fullPath[1] = "/"
    \/ Len(fullPath) >= 3 /\ fullPath[2] = ":" /\ fullPath[3] = "/"

_ensureTrailingSlash(path) ==
    IF Len(path) = 0 \/ path[Len(path)] # "/" THEN Append(path, "/") ELSE path

\* path.search(_DUPLICATED_SLASH_RE) === 0
startsWithDuplicatedSlash(path) ==
    Len(path) >= 2 /\ path[1] = "/" /\ path[2] = "/"

\* a replacement that leaves the groups of slashes as they are
keepDuplicatedSlash(path) == path

RECURSIVE replaceDuplicatedSlash(_)
\* path.replace(_DUPLICATED_SLASH_RE, "/")
replaceDuplicatedSlash(path) ==
    IF Len(path) <= 1 THEN path
    ELSE IF path[1] = "/" /\ path[2] = "/" THEN replaceDuplicatedSlash(Tail(path))
    ELSE <<path[1]>> \o replaceDuplicatedSlash(Tail(path))

\* path.indexOf("..") !== -1
containsDotDot(path) ==
    \E i \in 1..(Len(path) - 1) : path[i] = "." /\ path[i + 1] = "."

RECURSIVE split(_)
\* path.split("/")
split(path) ==
    LET slashes == {i \in 1..Len(path) : path[i] = "/"}
    IN  IF slashes = {} THEN <<path>>
        ELSE LET k == Min(slashes)
             IN  <<SubSeq(path, 1, k - 1)>> \o split(SubSeq(path, k + 1, Len(path)))

RECURSIVE join(_)
\* segments.join("/")
join(segments) ==
    IF Len(segments) = 0 THEN <<>>
    ELSE IF Len(segments) = 1 THEN segments[1]
    ELSE segments[1] \o <<"/">> \o join(Tail(segments))

RECURSIVE removeDotDotSegments(_, _)
\* the loop over the segments, i being the 0-based loop index
removeDotDotSegments(segments, i) ==
    IF i >= Len(segments) THEN segments
    ELSE IF segments[i + 1] = <<".", ".">>
         THEN IF i < 2 THEN <<Invalid>>
              ELSE removeDotDotSegments(
                       SubSeq(segments, 1, i - 1) \o SubSeq(segments, i + 2, Len(segments)),
                       i - 1)
         ELSE removeDotDotSegments(segments, i + 1)

\* a normalization that gives every path the trailing slash of a directory
_normalizePathAsDirectory(path, isDirectory) ==
    IF ~isAbsolutePath(path) THEN Invalid ELSE _ensureTrailingSlash(path)

_normalizePath(path, isDirectory) ==
    IF ~isAbsolutePath(path) THEN Invalid
    ELSE LET isUNCPath == implNormalizeUNCPaths /\ startsWithDuplicatedSlash(path)
             collapsed == replaceDuplicatedSlash(path)
             segments  == IF containsDotDot(collapsed)
                          THEN removeDotDotSegments(split(collapsed), 1)
                          ELSE <<>>
             resolved  == IF containsDotDot(collapsed) THEN join(segments) ELSE collapsed
             slashed   == IF isDirectory THEN _ensureTrailingSlash(resolved) ELSE resolved
         IN  IF containsDotDot(collapsed) /\ segments = <<Invalid>> THEN Invalid
             ELSE IF isUNCPath THEN <<"/">> \o slashed
             ELSE slashed

(***************************************************************************)
(* The index of entries (FileIndex) and the entries' cached data.          *)
(***************************************************************************)
isDirectoryPath(path) == Len(path) > 0 /\ path[Len(path)] = "/"

\* FileIndex.getEntry
getEntry(path) == path \in index

\* FileIndex.addEntry
addEntry(idx, path) == idx \cup {path}

\* FileIndex.removeEntry: a path given to alwaysIndex is never removed
removeEntry(idx, path) == IF path \in doNotRemove THEN idx ELSE idx \ {path}

\* a purge that tests fullPath.indexOf(child.fullPath) instead
removeEntriesAbove(idx, fullPath) ==
    {child \in idx : ~indexOfIsZero(fullPath, child) \/ removeEntry(idx, child) = idx}

\* the index after  visitAll(child => if (child.fullPath.indexOf(fullPath) === 0) removeEntry(child))
removeEntriesUnder(idx, fullPath) ==
    {child \in idx : ~indexOfIsZero(child, fullPath) \/ removeEntry(idx, child) = idx}

\* a visit that clears the cached stat of the entry at fullPath only
clearedStatAt(stat, fullPath) ==
    [e \in EntryPaths |-> IF e \in index /\ e = fullPath THEN NoStat ELSE stat[e]]

\* entry._stat after  visitAll(child => if (child.fullPath.indexOf(fullPath) === 0) child._clearCachedData(true))
clearedStatUnder(stat, fullPath) ==
    [e \in EntryPaths |-> IF e \in index /\ indexOfIsZero(e, fullPath) THEN NoStat ELSE stat[e]]

\* directory._contents after the same visit
clearedContentsUnder(cont, fullPath) ==
    [d \in DirPaths |-> IF d \in index /\ indexOfIsZero(d, fullPath) THEN NoContents ELSE cont[d]]

\* the lookup done on the path as given, not normalized
_getEntryForPathAsGiven(isDirectory, path) ==
    IF getEntry(path) THEN index ELSE addEntry(index, path)

\* _getEntryForPath: the index after the lookup, and the path of the entry returned
_getEntryForPathIndex(isDirectory, path) ==
    LET normalized == _normalizePath(path, isDirectory)
    IN  IF getEntry(normalized) THEN index ELSE addEntry(index, normalized)

(***************************************************************************)
(* The registry of watched roots: a sequence of [path, id, status], in    *)
(* the order of Object.keys(this._watchedRoots).  id names the WatchedRoot *)
(* object, which the callbacks of watch and unwatch hold on to.            *)
(***************************************************************************)
\* roots[fullPath], roots being the registry
rootIn(roots, fullPath) ==
    LET positions == {i \in 1..Len(roots) : roots[i].path = fullPath}
    IN  IF positions = {} THEN NoRoot ELSE roots[Min(positions)]

\* this._watchedRoots[fullPath]
rootAt(fullPath) == rootIn(watchedRoots, fullPath)

\* this._watchedRoots[fullPath] = watchedRoot : an existing key keeps its place
putRoot(roots, root) ==
    IF \E i \in 1..Len(roots) : roots[i].path = root.path
    THEN [i \in 1..Len(roots) |-> IF roots[i].path = root.path THEN root ELSE roots[i]]
    ELSE Append(roots, root)

\* delete this._watchedRoots[fullPath]
deleteRoot(roots, fullPath) ==
    LET keep(r) == r.path # fullPath IN SelectSeq(roots, keep)

\* watchedRoot.status = status, on the object id (which may have left the registry)
setStatus(roots, id, status) ==
    [i \in 1..Len(roots) |-> IF roots[i].id = id THEN [roots[i] EXCEPT !.status = status]
                             ELSE roots[i]]

\* new WatchedRoot(entry, filter, filterGitIgnore): the id of the new object
newWatchedRoot == nextRootId

_findWatchedRootForPath(fullPath) ==
    LET hits == {i \in 1..Len(watchedRoots) : indexOfIsZero(fullPath, watchedRoots[i].path)}
    IN  IF hits = {} THEN NoRoot ELSE watchedRoots[Min(hits)]

\* the filter function of a watched root; the roots of the model accept every name
filter(path) == TRUE

\* FileSystemEntry._isWatched
_isWatched(roots, path) ==
    LET hits == {i \in 1..Len(roots) : indexOfIsZero(path, roots[i].path)}
    IN  /\ hits # {}
        /\ roots[Min(hits)].status = ACTIVE
        /\ filter(path)

(***************************************************************************)
(* Events and callbacks of a handler.                                      *)
(***************************************************************************)
NoSet == {Null}     \* the added/removed argument is undefined

\* a "change" event; count is _activeChangeCount when the listeners are called and
\* cause the handler that triggers it
changeEvent(entry, added, removed, cause) ==
    [entry |-> entry, added |-> added, removed |-> removed,
     count |-> activeChangeCount, cause |-> cause]

callback(op, path, id, err) == [op |-> op, path |-> path, id |-> id, err |-> err]

\* no handler runs inside another one: the replay of external changes is not running
Idle == replay = <<>>

(***************************************************************************)
(* Protocol adapters                                                       *)
(***************************************************************************)
HTTP_PROTOCOL == <<"h", "t", "t", "p", ":">>
HTTPS_PROTOCOL == <<"h", "t", "t", "p", "s", ":">>
NoProtocol == <<>>          \* the protocol of a path that is not a URL
Protocols == {HTTP_PROTOCOL, HTTPS_PROTOCOL}

Undefined == <<"undefined">>    \* the argument of a call made without it
URLA == HTTP_PROTOCOL \o <<"/", "/", "a">>      \* http://a
URLB == HTTP_PROTOCOL \o <<"/", "/", "b">>      \* http://b
ReadArguments == {Undefined, URLA, URLB}        \* the arguments canRead is called with
NoAdapter == [name |-> "undefined"]

\* an adapter: priority is read only when hasPriority, fileImpl tells whether the adapter
\* has a file implementation, canRead is the set of arguments for which canRead is true
adapter(name, hasPriority, priority, fileImpl, canRead) ==
    [name |-> name, hasPriority |-> hasPriority, priority |-> priority,
     fileImpl |-> fileImpl, canRead |-> canRead]

\* a.priority || 0
priorityOrZero(a) == IF a.hasPriority THEN a.priority ELSE 0

\* the array left in registration order
keepRegistrationOrder(adapters) == adapters

RECURSIVE sort(_)
\* adapters.sort((a, b) => (b.priority || 0) - (a.priority || 0)): a stable sort, each
\* element placed after the elements before it whose priority is not lower
sort(adapters) ==
    IF Len(adapters) <= 1 THEN adapters
    ELSE LET front == sort(SubSeq(adapters, 1, Len(adapters) - 1))
             last == adapters[Len(adapters)]
             ahead == {i \in 1..Len(front) : priorityOrZero(front[i]) >= priorityOrZero(last)}
             n == Cardinality(ahead)
         IN  SubSeq(front, 1, n) \o <<last>> \o SubSeq(front, n + 1, Len(front))

\* the registry after registerProtocolAdapter(protocol, adapter)
registered(plugins, protocol, a) ==
    IF protocol = NoProtocol THEN plugins
    ELSE [plugins EXCEPT ![protocol] = sort(Append(@, a))]

\* the adapter of RemoteFile, registered for http: and https: when the module is loaded
protocolAdapter == adapter("RemoteFile", TRUE, 0, TRUE, ReadArguments)

defaultAdapters ==
    registered(registered([protocol \in Protocols |-> <<>>], HTTP_PROTOCOL, protocolAdapter),
               HTTPS_PROTOCOL, protocolAdapter)

\* _getProtocolAdapter(protocol, filePath): the first adapter whose canRead(filePath) is true
_getProtocolAdapter(protocol, filePath) ==
    LET protocolAdapters == IF protocol \in Protocols THEN fileProtocolPlugins[protocol]
                            ELSE <<>>
        compatible == {i \in 1..Len(protocolAdapters) :
                          filePath \in protocolAdapters[i].canRead}
    IN  IF compatible = {} THEN NoAdapter ELSE protocolAdapters[Min(compatible)]

\* PathUtils.parseUrl(path).protocol: the scheme and its colon, for a path that has one
parseUrlProtocol(path) ==
    LET colons == {i \in 1..Len(path) : path[i] = ":"}
        slashes == {i \in 1..Len(path) : path[i] = "/"}
    IN  IF colons = {} \/ (slashes # {} /\ Min(slashes) < Min(colons)) THEN NoProtocol
        ELSE SubSeq(path, 1, Min(colons))

(***************************************************************************)
(* getFileForPath / getDirectoryForPath / alwaysIndex                      *)
(***************************************************************************)
\* _getEntryForPath: the File entries after the lookup
_getEntryForPathFiles(isDirectory, path) ==
    LET normalized == _normalizePath(path, isDirectory)
    IN  IF getEntry(normalized) \/ isDirectory THEN fileEntries
        ELSE fileEntries \cup {normalized}

\* the value a lookup returns: the entry (its path, whether it is a File, whether the
\* call constructed it) and the adapter whose file implementation made it, if any
returned(op, path, entry, isFile, constructed, adapterName) ==
    [op |-> op, path |-> path, entry |-> entry, isFile |-> isFile,
     constructed |-> constructed, adapter |-> adapterName]

\* the value of a lookup that throws: _normalizePath refused the path
thrown(op, path) == returned(op, path, Invalid, FALSE, FALSE, NoAdapter.name)

getDirectoryForPath(path) ==
    /\ Idle
    /\ IF _normalizePath(path, TRUE) = Invalid
       THEN /\ called' = <<thrown("getDirectoryForPath", path)>>
            /\ UNCHANGED <<index, fileEntries>>
       ELSE /\ index' = _getEntryForPathIndex(TRUE, path)
            /\ fileEntries' = _getEntryForPathFiles(TRUE, path)
            /\ called' = <<returned("getDirectoryForPath", path, _normalizePath(path, TRUE),
                                    _normalizePath(path, TRUE) \in fileEntries',
                                    ~getEntry(_normalizePath(path, TRUE)), NoAdapter.name)>>
    /\ fired' = <<>>
    /\ UNCHANGED <<lookupVars, barrierVars, watchVars, doNotRemove, entryStat, contents, disk>>

\* a lookup that consults no adapter
noAdapterSelected(path) == NoAdapter

\* the adapter getFileForPath selects: _getProtocolAdapter is called without the path
selectedAdapter(path) == _getProtocolAdapter(parseUrlProtocol(path), Undefined)

getFileForPath(path) ==
    /\ Idle
    /\ IF selectedAdapter(path) # NoAdapter /\ selectedAdapter(path).fileImpl
       THEN \* new protocolAdapter.fileImpl(protocol, path, this): not an entry of the index
            /\ called' = <<returned("getFileForPath", path, path, TRUE, TRUE,
                                    selectedAdapter(path).name)>>
            /\ UNCHANGED <<index, fileEntries>>
       ELSE IF _normalizePath(path, FALSE) = Invalid
       THEN /\ called' = <<thrown("getFileForPath", path)>>
            /\ UNCHANGED <<index, fileEntries>>
       ELSE /\ index' = _getEntryForPathIndex(FALSE, path)
            /\ fileEntries' = _getEntryForPathFiles(FALSE, path)
            /\ called' = <<returned("getFileForPath", path, _normalizePath(path, FALSE),
                                    _normalizePath(path, FALSE) \in fileEntries',
                                    ~getEntry(_normalizePath(path, FALSE)), NoAdapter.name)>>
    /\ fired' = <<>>
    /\ UNCHANGED <<lookupVars, barrierVars, watchVars, doNotRemove, entryStat, contents, disk>>

\* the adapters that are registered: with and without a priority, of equal priorities,
\* without a file implementation, without canRead (it accepts nothing), and with a
\* canRead that tells the path from a missing argument
Adapters ==
    {adapter("A", TRUE, 1, TRUE, ReadArguments),
     adapter("B", FALSE, 0, TRUE, ReadArguments),
     adapter("C", TRUE, 1, TRUE, {URLA}),
     adapter("D", TRUE, 2, TRUE, {Undefined}),
     adapter("E", TRUE, 2, FALSE, ReadArguments),
     adapter("F", TRUE, 0, TRUE, {})}

registerProtocolAdapter(protocol, a) ==
    /\ Len(fileProtocolPlugins[HTTP_PROTOCOL]) + Len(fileProtocolPlugins[HTTPS_PROTOCOL])
          < MaxAdapters
    /\ fileProtocolPlugins' = registered(fileProtocolPlugins, protocol, a)
    /\ fired' = <<>>
    /\ called' = <<>>
    /\ UNCHANGED <<freePathSearch, index, fileEntries, barrierVars, watchVars, doNotRemove,
                   entryStat, contents, disk>>

alwaysIndex(filePath) ==
    /\ Idle
    /\ doNotRemove' = doNotRemove \cup {filePath}
    /\ fired' = <<>>
    /\ called' = <<>>
    /\ UNCHANGED <<fileEntries, lookupVars, barrierVars, watchVars, index, entryStat, contents, disk>>

(***************************************************************************)
(* watch / unwatch and the queue of watch requests                         *)
(***************************************************************************)
request(kind, path, id, origin) == [kind |-> kind, path |-> path, id |-> id, origin |-> origin]

\* no request callback is running
NoRequest == [kind |-> "none"]

\* _enqueueWatchRequest: this._watchRequests after the push
_enqueueWatchRequest(requests, req) == Append(requests, req)

\* a _dequeueWatchRequest that takes the request pushed last
_dequeueNewestRequest(requests, calls) ==
    IF Len(requests) > 0 THEN Append(calls, requests[Len(requests)]) ELSE calls

\* _dequeueWatchRequest: the calls in the backend after it; request.fn of the request at
\* the head is called when the queue is not empty
_dequeueWatchRequest(requests, calls) ==
    IF Len(requests) > 0 THEN Append(calls, requests[1]) ELSE calls

\* an _enqueueWatchRequest that begins every request at once
enqueuedCallsAtOnce(requests, calls, req) == Append(calls, req)

\* _enqueueWatchRequest: the calls in the backend after it; the queue is processed from
\* here only if the pushed request is alone in it
enqueuedCalls(requests, calls, req) ==
    IF Len(_enqueueWatchRequest(requests, req)) = 1
    THEN _dequeueWatchRequest(_enqueueWatchRequest(requests, req), calls)
    ELSE calls

RECURSIVE enqueuedCallsEach(_, _, _)
\* the calls in the backend after _enqueueWatchRequest of each of reqs in turn
enqueuedCallsEach(requests, calls, reqs) ==
    IF reqs = <<>> THEN calls
    ELSE enqueuedCallsEach(_enqueueWatchRequest(requests, Head(reqs)),
                           enqueuedCalls(requests, calls, Head(reqs)), Tail(reqs))

\* watchingParentRoot && (status === STARTING || status === ACTIVE)
watchingParentRoot(fullPath) ==
    LET root == _findWatchedRootForPath(fullPath)
    IN  root # NoRoot /\ root.status \in {STARTING, ACTIVE}

\* Object.keys(this._watchedRoots).some(...) : a boolean
watchingChildRootFound(fullPath) ==
    \E i \in 1..Len(watchedRoots) : indexOfIsZero(watchedRoots[i].path, fullPath)

\* watchingChildRoot.status, the status property of that boolean
watchingChildRootStatus(fullPath) == "undefined"

\* watchingChildRoot && (status === STARTING || status === ACTIVE)
watchingChildRoot(fullPath) ==
    /\ watchingChildRootFound(fullPath)
    /\ watchingChildRootStatus(fullPath) \in {STARTING, ACTIVE}

watch(fullPath) ==
    /\ Idle
    /\ fired' = <<>>
    /\ IF watchingParentRoot(fullPath)
       THEN /\ called' = <<callback("watch", fullPath, NoId, ParentWatched)>>
            /\ UNCHANGED watchVars
       ELSE IF watchingChildRoot(fullPath)
       THEN /\ called' = <<callback("watch", fullPath, NoId, ChildWatched)>>
            /\ UNCHANGED watchVars
       ELSE /\ nextRootId < MaxWatchCalls
            /\ Len(watchRequests) < MaxQueue
            /\ nextRootId' = nextRootId + 1
            /\ watchedRoots' = putRoot(watchedRoots,
                                   [path |-> fullPath, id |-> newWatchedRoot, status |-> STARTING])
            /\ watchRequests' = _enqueueWatchRequest(watchRequests,
                                   request("watchPath", fullPath, newWatchedRoot, "watch"))
            /\ backendCalls' = enqueuedCalls(watchRequests, backendCalls,
                                   request("watchPath", fullPath, newWatchedRoot, "watch"))
            /\ called' = <<>>
            /\ UNCHANGED completing
    /\ UNCHANGED <<fileEntries, lookupVars, barrierVars, index, doNotRemove, entryStat, contents, disk>>

\* an unwatch that asks the backend to unwatch a path without asking whether it is registered
unwatchUnregistered(fullPath) ==
    /\ Idle
    /\ fired' = <<>>
    /\ Len(watchRequests) < MaxQueue
    /\ watchedRoots' = IF rootAt(fullPath) = NoRoot THEN watchedRoots
                       ELSE setStatus(watchedRoots, rootAt(fullPath).id, INACTIVE)
    /\ watchRequests' = _enqueueWatchRequest(watchRequests,
                           request("unwatchPath", fullPath,
                                   IF rootAt(fullPath) = NoRoot THEN NoId ELSE rootAt(fullPath).id,
                                   "unwatch"))
    /\ backendCalls' = enqueuedCalls(watchRequests, backendCalls,
                           request("unwatchPath", fullPath,
                                   IF rootAt(fullPath) = NoRoot THEN NoId ELSE rootAt(fullPath).id,
                                   "unwatch"))
    /\ called' = <<>>
    /\ UNCHANGED <<fileEntries, lookupVars, nextRootId, completing, barrierVars, index, doNotRemove, entryStat, contents, disk>>

unwatch(fullPath) ==
    /\ Idle
    /\ fired' = <<>>
    /\ IF rootAt(fullPath) = NoRoot
       THEN /\ called' = <<callback("unwatch", fullPath, NoId, ROOT_NOT_WATCHED)>>
            /\ UNCHANGED watchVars
       ELSE /\ Len(watchRequests) < MaxQueue
            /\ watchedRoots' = setStatus(watchedRoots, rootAt(fullPath).id, INACTIVE)
            /\ watchRequests' = _enqueueWatchRequest(watchRequests,
                                   request("unwatchPath", fullPath, rootAt(fullPath).id, "unwatch"))
            /\ backendCalls' = enqueuedCalls(watchRequests, backendCalls,
                                   request("unwatchPath", fullPath, rootAt(fullPath).id, "unwatch"))
            /\ called' = <<>>
            /\ UNCHANGED <<nextRootId, completing>>
    /\ UNCHANGED <<fileEntries, lookupVars, barrierVars, index, doNotRemove, entryStat, contents, disk>>

\* a watch callback that leaves the registration of a failed watch in place
watchCompletedKeepingRoot(req, err) ==
    /\ IF err # NoError
       THEN UNCHANGED watchedRoots
       ELSE watchedRoots' = setStatus(watchedRoots, req.id, ACTIVE)
    /\ called' = <<callback("watch", req.path, req.id, err)>>
    /\ UNCHANGED <<index, entryStat, contents>>

\* the callback watch gives to _watchEntry
watchCompleted(req, err) ==
    /\ IF err # NoError
       THEN watchedRoots' = deleteRoot(watchedRoots, req.path)
       ELSE watchedRoots' = setStatus(watchedRoots, req.id, ACTIVE)
    /\ called' = <<callback("watch", req.path, req.id, err)>>
    /\ UNCHANGED <<index, entryStat, contents>>

\* the callback unwatch gives to _unwatchEntry, after _unwatchEntry has cleared the caches
unwatchCompleted(req, err) ==
    /\ watchedRoots' = deleteRoot(watchedRoots, req.path)
    /\ index' = removeEntriesUnder(index, req.path)
    /\ entryStat' = clearedStatUnder(entryStat, req.path)
    /\ contents' = clearedContentsUnder(contents, req.path)
    /\ called' = <<callback("unwatch", req.path, req.id, err)>>

\* a callback of _unwatchAll that removes the entries under the root from the index
offlineUnwatchRemovingEntries(req, err) ==
    /\ index' = removeEntriesUnder(index, req.path)
    /\ entryStat' = clearedStatUnder(entryStat, req.path)
    /\ contents' = clearedContentsUnder(contents, req.path)
    /\ called' = <<>>
    /\ UNCHANGED watchedRoots

\* the callback _unwatchAll gives to _unwatchEntry, which only logs
offlineUnwatchCompleted(req, err) ==
    /\ entryStat' = clearedStatUnder(entryStat, req.path)
    /\ contents' = clearedContentsUnder(contents, req.path)
    /\ called' = <<>>
    /\ UNCHANGED <<watchedRoots, index>>

\* the backend completes the request in flight: the requestCb of _dequeueWatchRequest,
\* with a callback that calls nothing of the file system
requestCompleted(err) ==
    /\ Idle
    /\ watchRequests # <<>>
    /\ backendCalls # <<>>
    /\ completing = NoRequest
    /\ LET req == Head(watchRequests)
       IN  CASE req.kind = "watchPath" -> watchCompleted(req, err)
             [] req.kind = "unwatchPath" /\ req.origin = "unwatch" -> unwatchCompleted(req, err)
             [] OTHER -> offlineUnwatchCompleted(req, err)
    /\ watchRequests' = Tail(watchRequests)
    /\ backendCalls' = _dequeueWatchRequest(Tail(watchRequests), Tail(backendCalls))
    /\ fileEntries' = fileEntries \cap index'
    /\ fired' = <<>>
    /\ UNCHANGED <<lookupVars, barrierVars, nextRootId, completing, doNotRemove, disk>>

\* requestCb up to the return of request.cb: the backend completes the call at the head of
\* its calls and the callback of the request runs; the client's callback, which may call
\* watch and unwatch before it returns, throws when threw
requestCb(err, threw) ==
    /\ Idle
    /\ backendCalls # <<>>
    /\ completing = NoRequest
    /\ LET req == Head(backendCalls)
       IN  /\ CASE req.kind = "watchPath" -> watchCompleted(req, err)
                [] req.kind = "unwatchPath" /\ req.origin = "unwatch" -> unwatchCompleted(req, err)
                [] OTHER -> offlineUnwatchCompleted(req, err)
           /\ completing' = [request |-> req, threw |-> threw]
    /\ threw => called' # <<>>
    /\ backendCalls' = Tail(backendCalls)
    /\ fileEntries' = fileEntries \cap index'
    /\ fired' = <<>>
    /\ UNCHANGED <<lookupVars, barrierVars, watchRequests, nextRootId, doNotRemove, disk>>

\* a requestCb without try and finally: a callback that throws leaves the queue as it is
requestCbUnlessThrown ==
    /\ completing # NoRequest
    /\ watchRequests # <<>>
    /\ watchRequests' = IF completing.threw THEN watchRequests ELSE Tail(watchRequests)
    /\ backendCalls' = IF completing.threw THEN backendCalls
                       ELSE _dequeueWatchRequest(Tail(watchRequests), backendCalls)
    /\ completing' = NoRequest
    /\ fired' = <<>>
    /\ called' = <<>>
    /\ UNCHANGED <<fileEntries, lookupVars, barrierVars, watchedRoots, nextRootId, index,
                   doNotRemove, entryStat, contents, disk>>

\* the finally block of requestCb: this._watchRequests.shift() and _dequeueWatchRequest(),
\* whether request.cb returned or threw
requestCbFinally ==
    /\ completing # NoRequest
    /\ watchRequests # <<>>
    /\ watchRequests' = Tail(watchRequests)
    /\ backendCalls' = _dequeueWatchRequest(Tail(watchRequests), backendCalls)
    /\ completing' = NoRequest
    /\ fired' = <<>>
    /\ called' = <<>>
    /\ UNCHANGED <<fileEntries, lookupVars, barrierVars, watchedRoots, nextRootId, index,
                   doNotRemove, entryStat, contents, disk>>

\* an _unwatchAll that asks the backend nothing
noOfflineRequests(roots) == <<>>

RECURSIVE offlineRequests(_)
\* the unwatch requests _unwatchAll enqueues, one for each root in key order
offlineRequests(roots) ==
    IF roots = <<>> THEN <<>>
    ELSE <<request("unwatchPath", Head(roots).path, Head(roots).id, "offline")>>
         \o offlineRequests(Tail(roots))

\* _unwatchAll, the backend's offline callback
_unwatchAll ==
    /\ Idle
    /\ Len(watchRequests) + Len(watchedRoots) <= MaxQueue
    /\ watchRequests' = watchRequests \o offlineRequests(watchedRoots)
    /\ backendCalls' = enqueuedCallsEach(watchRequests, backendCalls,
                                          offlineRequests(watchedRoots))
    /\ watchedRoots' = <<>>
    /\ entryStat' = clearedStatUnder(entryStat, <<>>)
    /\ contents' = clearedContentsUnder(contents, <<>>)
    /\ fired' = <<changeEvent(Null, NoSet, NoSet, "offline")>>
    /\ called' = <<>>
    /\ UNCHANGED <<fileEntries, lookupVars, barrierVars, nextRootId, completing, index,
                   doNotRemove, disk>>

RECURSIVE answeredAtOnce(_, _, _)
\* the queue and the calls in the backend after _enqueueWatchRequest of each of reqs in
\* turn, when the backend calls requestCb before request.fn returns: the request that was
\* begun is shifted and the queue processed again before the next one is pushed
answeredAtOnce(requests, calls, reqs) ==
    IF reqs = <<>> THEN [requests |-> requests, calls |-> calls]
    ELSE LET pushed == _enqueueWatchRequest(requests, Head(reqs))
             begun == enqueuedCalls(requests, calls, Head(reqs))
         IN  IF Len(begun) > Len(calls)
             THEN answeredAtOnce(Tail(pushed),
                                 _dequeueWatchRequest(Tail(pushed), Tail(begun)), Tail(reqs))
             ELSE answeredAtOnce(pushed, begun, Tail(reqs))

\* _unwatchAll with a backend that completes every unwatchPath before it returns
_unwatchAllAnsweredAtOnce ==
    /\ Idle
    /\ completing = NoRequest
    /\ watchRequests = <<>>
    /\ watchedRoots # <<>>
    /\ watchRequests' =
           answeredAtOnce(watchRequests, backendCalls, offlineRequests(watchedRoots)).requests
    /\ backendCalls' =
           answeredAtOnce(watchRequests, backendCalls, offlineRequests(watchedRoots)).calls
    /\ watchedRoots' = <<>>
    /\ entryStat' = clearedStatUnder(entryStat, <<>>)
    /\ contents' = clearedContentsUnder(contents, <<>>)
    /\ fired' = <<changeEvent(Null, NoSet, NoSet, "offline")>>
    /\ called' = <<>>
    /\ UNCHANGED <<fileEntries, lookupVars, barrierVars, nextRootId, completing, index,
                   doNotRemove, disk>>

(***************************************************************************)
(* The change barrier and the external changes                             *)
(***************************************************************************)
\* a handler may be entered from the event loop, or from a "change" listener that the
\* replay of the external changes has called
CanCall == Idle \/ inListener

\* _triggerExternalChangesNow starts: forEach reads the array's length once
startedReplay(stack, changes) == Append(stack, [k |-> 0, len |-> Len(changes)])

_beginChange ==
    /\ CanCall
    /\ activeChangeCount < MaxCount
    /\ activeChangeCount' = activeChangeCount + 1
    /\ fired' = <<>>
    /\ called' = <<>>
    /\ UNCHANGED <<fileEntries, lookupVars, externalChanges, replay, inListener, handled, nextChangeId, pendingListings,
                   copies,
                   watchVars, index, doNotRemove, entryStat, contents, disk>>

\* console.error("FileSystem _activeChangeCount has fallen below zero!")
BelowZero == "FileSystem _activeChangeCount has fallen below zero!"

_endChange ==
    /\ CanCall
    /\ activeChangeCount > -MaxUnmatched
    /\ activeChangeCount' = activeChangeCount - 1
    /\ IF activeChangeCount' = 0
       THEN /\ Len(replay) < MaxDepth
            /\ replay' = startedReplay(replay, externalChanges)
            /\ inListener' = FALSE
       ELSE UNCHANGED <<replay, inListener>>
    /\ fired' = <<>>
    /\ called' = IF activeChangeCount' < 0
                 THEN <<callback("console.error", Null, NoId, BelowZero)>>
                 ELSE <<>>
    /\ UNCHANGED <<fileEntries, lookupVars, externalChanges, handled, nextChangeId, pendingListings, copies,
                   watchVars, index, doNotRemove, entryStat, contents, disk>>

\* the backend's change callback
_enqueueExternalChange(path, stat) ==
    /\ CanCall
    /\ nextChangeId < MaxChanges
    /\ externalChanges' = Append(externalChanges,
                                 [id |-> nextChangeId, path |-> path, stat |-> stat])
    /\ nextChangeId' = nextChangeId + 1
    /\ IF activeChangeCount = 0
       THEN /\ Len(replay) < MaxDepth
            /\ replay' = startedReplay(replay, externalChanges')
            /\ inListener' = FALSE
       ELSE UNCHANGED <<replay, inListener>>
    /\ fired' = <<>>
    /\ called' = <<>>
    /\ UNCHANGED <<fileEntries, lookupVars, activeChangeCount, handled, pendingListings, copies,
                   watchVars, index, doNotRemove, entryStat, contents, disk>>

\* the parent directory of a path
parentPath(path) ==
    LET body == IF isDirectoryPath(path) THEN SubSeq(path, 1, Len(path) - 1) ELSE path
        slashes == {i \in 1..Len(body) : body[i] = "/"}
    IN  IF slashes = {} THEN <<>> ELSE SubSeq(body, 1, CHOOSE i \in slashes : \A j \in slashes : j <= i)

\* Directory._clearCachedData(): the directory's own cached data and that of the entries
\* of its cached listing
directoryClearedStat(stat, directory) ==
    [e \in EntryPaths |->
        IF e = directory \/ (contents[directory] # NoContents /\ e \in contents[directory])
        THEN NoStat ELSE stat[e]]

directoryClearedContents(cont, directory) ==
    [d \in DirPaths |->
        IF d = directory \/ (contents[directory] # NoContents /\ d \in contents[directory])
        THEN NoContents ELSE cont[d]]

\* a comparison that takes an equal mtime for a newer one
upToDateStrict(stat, oldStat) == stat # NoStat /\ oldStat # NoStat /\ stat < oldStat

\* a comparison that takes an entry for up to date when a stat is missing
upToDateWithoutStat(stat, oldStat) == stat = NoStat \/ oldStat = NoStat \/ stat <= oldStat

\* stat && oldStat && stat.mtime.getTime() <= oldStat.mtime.getTime()
upToDate(stat, oldStat) == stat # NoStat /\ oldStat # NoStat /\ stat <= oldStat

\* _handleExternalChange(path, stat), up to the directory listing it may ask for
_handleExternalChange(change) ==
    IF change.path = Null
    THEN /\ entryStat' = clearedStatUnder(entryStat, <<>>)
         /\ contents' = clearedContentsUnder(contents, <<>>)
         /\ fired' = <<changeEvent(Null, NoSet, NoSet, "external")>>
         /\ UNCHANGED pendingListings
    ELSE LET path == _normalizePath(change.path, FALSE)
         IN  IF ~getEntry(path)
             THEN /\ fired' = <<>>
                  /\ UNCHANGED <<entryStat, contents, pendingListings>>
             ELSE IF path \in fileEntries
             THEN IF ~upToDate(change.stat, entryStat[path])
                  THEN /\ entryStat' = [entryStat EXCEPT ![path] = change.stat]
                       /\ fired' = <<changeEvent(path, NoSet, NoSet, "external")>>
                       /\ UNCHANGED <<contents, pendingListings>>
                  ELSE /\ fired' = <<>>
                       /\ UNCHANGED <<entryStat, contents, pendingListings>>
             ELSE \* _handleDirectoryChange: clear the listing and list again
                  /\ Len(pendingListings) < MaxListings
                  /\ pendingListings' = Append(pendingListings,
                         [directory |-> path, oldContents |-> contents[path],
                          stat |-> change.stat, cause |-> "external"])
                  /\ entryStat' = directoryClearedStat(entryStat, path)
                  /\ contents' = directoryClearedContents(contents, path)
                  /\ fired' = <<>>

\* the forEach of the running _triggerExternalChangesNow has an element left to visit
replayHasNext ==
    /\ replay # <<>>
    /\ replay[Len(replay)].k < replay[Len(replay)].len
    /\ replay[Len(replay)].k < Len(externalChanges)

\* the change record the forEach visits next
replayChange == externalChanges[replay[Len(replay)].k + 1]

\* one iteration of the forEach of _triggerExternalChangesNow
replayNext ==
    /\ replayHasNext
    /\ Len(handled) < MaxHandled
    /\ handled' = Append(handled, replayChange.id)
    /\ _handleExternalChange(replayChange)
    /\ replay' = [replay EXCEPT ![Len(replay)].k = @ + 1]
    /\ inListener' = (fired' # <<>>)
    /\ called' = <<>>
    /\ UNCHANGED <<fileEntries, lookupVars, activeChangeCount, externalChanges, nextChangeId, copies,
                   watchVars, index, doNotRemove, disk>>

\* the end of _triggerExternalChangesNow: this._externalChanges.length = 0, and the return
\* to the caller (the event loop, or the listener that re-entered the facade)
replayEnd ==
    /\ replay # <<>>
    /\ ~replayHasNext
    /\ externalChanges' = <<>>
    /\ replay' = SubSeq(replay, 1, Len(replay) - 1)
    /\ inListener' = (replay' # <<>>)
    /\ fired' = <<>>
    /\ called' = <<>>
    /\ UNCHANGED <<fileEntries, lookupVars, activeChangeCount, handled, nextChangeId, pendingListings, copies,
                   watchVars, index, doNotRemove, entryStat, contents, disk>>

(***************************************************************************)
(* The directory diff: the completion of the listing                       *)
(***************************************************************************)
\* Directory.getContents: the entries of the directory on disk
listing(directory) == {e \in disk : parentPath(e) = directory /\ filter(e)}

\* a diff that reports the whole new listing as added
addedEntriesAll(oldContents, newContents) ==
    IF oldContents = NoContents THEN NoSet ELSE newContents

\* contents.filter(entry => oldContents.indexOf(entry) === -1), undefined without oldContents
addedEntries(oldContents, newContents) ==
    IF oldContents = NoContents THEN NoSet ELSE newContents \ oldContents

\* a diff that reports no entry as removed
removedEntriesNone(oldContents, newContents) ==
    IF oldContents = NoContents THEN NoSet ELSE {}

\* oldContents.filter(entry => contents.indexOf(entry) === -1), undefined without oldContents
removedEntries(oldContents, newContents) ==
    IF oldContents = NoContents THEN NoSet ELSE oldContents \ newContents

\* the entries whose cached data the diff clears: everything under an unwatched directory,
\* or everything under each removed entry of a watched one (_unwatchEntry)
diffCleared(directory, removed) ==
    LET watchedRoot == _findWatchedRootForPath(directory)
    IN  IF watchedRoot = NoRoot \/ ~filter(directory)
        THEN {e \in index' : indexOfIsZero(e, directory)}
        ELSE IF removed = NoSet THEN {}
        ELSE {e \in index' : \E r \in removed : indexOfIsZero(e, r)}

\* the size of an added or removed set, 0 for an undefined one
lengthOf(entries) == IF entries = NoSet THEN 0 ELSE Cardinality(entries)

\* a counter that counts one sub-operation too many
counterOneMore(added, removed) == lengthOf(added) + lengthOf(removed) + 1

\* counter = addedCounter + removedCounter
counter(added, removed) == lengthOf(added) + lengthOf(removed)

\* the sub-operations of a diff whose callback _watchOrUnwatchEntry calls at once: those
\* on an entry that is not the root's own (the others are enqueued as watch requests)
completedAtOnce(directory, added, removed) ==
    {e \in (IF added = NoSet THEN {} ELSE added) \cup (IF removed = NoSet THEN {} ELSE removed) :
        e # _findWatchedRootForPath(directory).path}

RECURSIVE watchOrUnwatchCallback(_, _)
\* the calls of the diff's callback made by n calls of watchOrUnwatchCallback, the
\* counter being c before them: if (--counter === 0) callback(...)
watchOrUnwatchCallback(c, n) ==
    IF n = 0 THEN 0
    ELSE (IF c - 1 = 0 THEN 1 ELSE 0) + watchOrUnwatchCallback(c - 1, n - 1)

\* the number of times _handleDirectoryChange has called its callback when the handler of
\* the listing returns
diffCallbackCalls(directory, added, removed) ==
    IF _findWatchedRootForPath(directory) = NoRoot \/ ~filter(directory) THEN 1
    ELSE IF counter(added, removed) = 0 THEN 1
    ELSE watchOrUnwatchCallback(counter(added, removed),
                                Cardinality(completedAtOnce(directory, added, removed)))

\* the events of a callback that is called n times and fires the event each time
firedTimes(n, event) == [k \in 1..n |-> event]

\* a completion that takes a listing without added or removed entries for no change
listingCompletedQuiet(i) ==
    /\ Idle
    /\ i \in 1..Len(pendingListings)
    /\ LET job == pendingListings[i]
           directory == job.directory
           newContents == listing(directory)
           added == addedEntries(job.oldContents, newContents)
           removed == removedEntries(job.oldContents, newContents)
           cleared == diffCleared(directory, removed)
       IN  /\ index' = index \cup newContents
           /\ fileEntries' = fileEntries \cup {e \in newContents \ index : ~isDirectoryPath(e)}
           /\ contents' = [d \in DirPaths |->
                  IF d \in cleared THEN NoContents
                  ELSE IF d = directory
                       THEN IF _findWatchedRootForPath(directory).status \in {STARTING, ACTIVE}
                            THEN newContents ELSE NoContents
                  ELSE contents[d]]
           /\ entryStat' = [e \in EntryPaths |->
                  IF e = directory THEN job.stat
                  ELSE IF e \in cleared THEN NoStat
                  ELSE entryStat[e]]
           /\ fired' = IF _isWatched(watchedRoots, directory) /\ added \cup removed # {}
                       THEN <<changeEvent(directory, added, removed, job.cause)>>
                       ELSE <<>>
    /\ pendingListings' = [j \in 1..(Len(pendingListings) - 1) |->
                              IF j < i THEN pendingListings[j] ELSE pendingListings[j + 1]]
    /\ called' = <<>>
    /\ UNCHANGED <<lookupVars, activeChangeCount, externalChanges, replay, inListener, handled,
                   nextChangeId, copies, watchVars, doNotRemove, disk>>

\* the callback of directory.getContents in _handleDirectoryChange, and the callback
\* _handleExternalChange gave to _handleDirectoryChange
listingCompleted(i) ==
    /\ Idle
    /\ i \in 1..Len(pendingListings)
    /\ LET job == pendingListings[i]
           directory == job.directory
           newContents == listing(directory)
           added == addedEntries(job.oldContents, newContents)
           removed == removedEntries(job.oldContents, newContents)
           cleared == diffCleared(directory, removed)
       IN  /\ index' = index \cup newContents
           /\ fileEntries' = fileEntries \cup {e \in newContents \ index : ~isDirectoryPath(e)}
           /\ contents' = [d \in DirPaths |->
                  IF d \in cleared THEN NoContents
                  ELSE IF d = directory
                       THEN IF _findWatchedRootForPath(directory).status \in {STARTING, ACTIVE}
                            THEN newContents ELSE NoContents
                  ELSE contents[d]]
           /\ entryStat' = [e \in EntryPaths |->
                  IF e = directory THEN job.stat
                  ELSE IF e \in cleared THEN NoStat
                  ELSE entryStat[e]]
           /\ fired' = IF _isWatched(watchedRoots, directory)
                       THEN firedTimes(diffCallbackCalls(directory, added, removed),
                                       changeEvent(directory, added, removed, job.cause))
                       ELSE <<>>
    /\ pendingListings' = [j \in 1..(Len(pendingListings) - 1) |->
                              IF j < i THEN pendingListings[j] ELSE pendingListings[j + 1]]
    /\ called' = <<>>
    /\ UNCHANGED <<lookupVars, activeChangeCount, externalChanges, replay, inListener, handled,
                   nextChangeId, copies, watchVars, doNotRemove, disk>>

\* a file is created or deleted in the backend's storage by another program
externalDiskChange(path) ==
    /\ Idle
    /\ disk' = IF path \in disk THEN disk \ {path} ELSE disk \cup {path}
    /\ fired' = <<>>
    /\ called' = <<>>
    /\ UNCHANGED <<fileEntries, lookupVars, barrierVars, watchVars, index, doNotRemove, entryStat, contents>>

(***************************************************************************)
(* copy                                                                    *)
(***************************************************************************)
\* window.path.dirname: the path up to its last segment, without a trailing slash
dirname(path) ==
    LET body == IF isDirectoryPath(path) THEN SubSeq(path, 1, Len(path) - 1) ELSE path
        slashes == {i \in 1..Len(body) : body[i] = "/"}
        last == CHOOSE i \in slashes : \A j \in slashes : j <= i
    IN  IF slashes = {} THEN <<".">>
        ELSE IF last = 1 THEN <<"/">>
        ELSE SubSeq(body, 1, last - 1)

\* the directory copy diffs after the backend's success, stat.realPath being the
\* destination: its parent for a file, the destination itself for a directory
copyTarget(realPath) ==
    IF ~isDirectoryPath(realPath)
    THEN _normalizePath(dirname(realPath), TRUE)
    ELSE _normalizePath(realPath, TRUE)

\* self._endChange() in a callback of copy
_endChangeOfCopy ==
    /\ activeChangeCount' = activeChangeCount - 1
    /\ IF activeChangeCount' = 0
       THEN /\ Len(replay) < MaxDepth
            /\ replay' = startedReplay(replay, externalChanges)
            /\ inListener' = FALSE
       ELSE UNCHANGED <<replay, inListener>>

\* copies without its i-th element
withoutCopy(i) ==
    [j \in 1..(Len(copies) - 1) |-> IF j < i THEN copies[j] ELSE copies[j + 1]]

\* copy(src, dst, callback), up to the call of the backend
copy(src, dst) ==
    /\ CanCall
    /\ activeChangeCount < MaxCount
    /\ Len(copies) < MaxCopies
    /\ \A j \in 1..Len(copies) : copies[j].dst # dst
    /\ activeChangeCount' = activeChangeCount + 1
    /\ copies' = Append(copies, [src |-> src, dst |-> dst, phase |-> "backend",
                                 directory |-> Null, oldContents |-> NoContents])
    /\ fired' = <<>>
    /\ called' = <<>>
    /\ UNCHANGED <<fileEntries, lookupVars, externalChanges, replay, inListener, handled, nextChangeId, pendingListings,
                   watchVars, index, doNotRemove, entryStat, contents, disk>>

\* the callback copy gives to the backend's copy: with an error the caller's callback is
\* called (it may throw) and then _endChange; with success the directory diff starts
copyCompleted(i, err, throws) ==
    /\ Idle
    /\ i \in 1..Len(copies)
    /\ copies[i].phase = "backend"
    /\ fired' = <<>>
    /\ IF err # NoError
       THEN /\ called' = <<callback("copy", copies[i].dst, NoId, err)>>
            /\ copies' = withoutCopy(i)
            /\ IF throws
               THEN UNCHANGED <<activeChangeCount, replay, inListener>>
               ELSE _endChangeOfCopy
            /\ UNCHANGED <<index, entryStat, contents, disk>>
       ELSE LET target == copyTarget(copies[i].dst)
            IN  /\ ~throws
                /\ copies[i].src \in disk
                /\ copies[i].dst \notin disk
                /\ disk' = disk \cup {copies[i].dst}
                /\ index' = _getEntryForPathIndex(TRUE, target)
                /\ copies' = [copies EXCEPT ![i] = [@ EXCEPT !.phase = "listing",
                                                             !.directory = target,
                                                             !.oldContents = contents[target]]]
                /\ entryStat' = directoryClearedStat(entryStat, target)
                /\ contents' = directoryClearedContents(contents, target)
                /\ called' = <<>>
                /\ UNCHANGED <<activeChangeCount, replay, inListener>>
    /\ UNCHANGED <<fileEntries, lookupVars, externalChanges, handled, nextChangeId, pendingListings,
                   watchVars, doNotRemove>>

\* the callback of directory.getContents in _handleDirectoryChange, and the callback copy
\* gave to _handleDirectoryChange: the caller's callback is called and, whether it throws
\* or not, the change event is fired when the directory is watched, and then _endChange
copyListingCompleted(i) ==
    /\ Idle
    /\ i \in 1..Len(copies)
    /\ copies[i].phase = "listing"
    /\ LET job == copies[i]
           directory == job.directory
           newContents == listing(directory)
           added == addedEntries(job.oldContents, newContents)
           removed == removedEntries(job.oldContents, newContents)
           cleared == diffCleared(directory, removed)
       IN  /\ index' = index \cup newContents
           /\ fileEntries' = fileEntries \cup {e \in newContents \ index : ~isDirectoryPath(e)}
           /\ contents' = [d \in DirPaths |->
                  IF d \in cleared THEN NoContents
                  ELSE IF d = directory
                       THEN IF _findWatchedRootForPath(directory).status \in {STARTING, ACTIVE}
                            THEN newContents ELSE NoContents
                  ELSE contents[d]]
           /\ entryStat' = [e \in EntryPaths |-> IF e \in cleared THEN NoStat ELSE entryStat[e]]
           /\ called' = <<callback("copy", job.dst, NoId, NoError)>>
           /\ fired' = IF _isWatched(watchedRoots, directory)
                       THEN firedTimes(diffCallbackCalls(directory, added, removed),
                                       changeEvent(directory, added, removed, "copy"))
                       ELSE <<>>
    /\ _endChangeOfCopy
    /\ copies' = withoutCopy(i)
    /\ UNCHANGED <<lookupVars, externalChanges, handled, nextChangeId, pendingListings,
                   watchVars, doNotRemove, disk>>

(***************************************************************************)
(* getFreePath                                                             *)
(***************************************************************************)
Digits == <<"0", "1", "2", "3", "4", "5", "6", "7", "8", "9">>

RECURSIVE decimal(_)
\* `${i}`: the decimal digits of i
decimal(i) ==
    IF i < 10 THEN <<Digits[i + 1]>>
    ELSE decimal(i \div 10) \o <<Digits[(i % 10) + 1]>>

\* pathLib.normalize, of an absolute path: duplicated slashes and the segments . and ..
\* resolved, a trailing slash kept
pathLibNormalize(path) ==
    IF _normalizePath(path, FALSE) = <<>> THEN <<"/">> ELSE _normalizePath(path, FALSE)

\* the last segment of a path
lastSegment(path) ==
    LET body == IF isDirectoryPath(path) THEN SubSeq(path, 1, Len(path) - 1) ELSE path
        slashes == {i \in 1..Len(body) : body[i] = "/"}
    IN  IF slashes = {} THEN body
        ELSE SubSeq(body, (CHOOSE i \in slashes : \A j \in slashes : j <= i) + 1, Len(body))

\* pathLib.extname: the last segment from its last dot on, when that dot is not its
\* first character
extname(path) ==
    LET name == lastSegment(path)
        dots == {i \in 2..Len(name) : name[i] = "."}
    IN  IF dots = {} THEN <<>>
        ELSE SubSeq(name, CHOOSE i \in dots : \A j \in dots : j <= i, Len(name))

\* pathLib.basename(path, ext): the last segment without the extension it ends with
basename(path, ext) ==
    LET name == lastSegment(path)
    IN  IF /\ Len(ext) < Len(name)
           /\ SubSeq(name, Len(name) - Len(ext) + 1, Len(name)) = ext
        THEN SubSeq(name, 1, Len(name) - Len(ext))
        ELSE name

\* pathLib.join(dir, name)
pathLibJoin(dir, name) ==
    IF isDirectoryPath(dir) THEN dir \o name ELSE dir \o <<"/">> \o name

\* `(copy ${i})`
copySuffix(i) == <<"(", "c", "o", "p", "y", " ">> \o decimal(i) \o <<")">>

_getNewPath(suggestedPath, isDir, i) ==
    LET normalized == pathLibNormalize(suggestedPath)
    IN  IF isDir THEN normalized \o <<" ">> \o copySuffix(i)
        ELSE pathLibJoin(dirname(normalized),
                         basename(normalized, extname(normalized)) \o copySuffix(i)
                            \o extname(normalized))

\* this._impl.stat(suggestedPath): the entry on disk, a directory under its path with
\* a trailing slash
statIsDirectory(path) == _ensureTrailingSlash(path) \in disk
statIsFile(path) == path \in disk /\ ~isDirectoryPath(path)

\* this._impl.existsAsync(newPath), when it resolves
existsAsync(newPath) == statIsDirectory(newPath) \/ statIsFile(newPath)

\* a candidate wrongly taken as free whatever the probe says
candidateAlwaysFree(exists) == TRUE

\* if (!exists): the candidate is free
candidateFree(exists) == ~exists

search(phase, suggestedPath, isDir, i, failure) ==
    [phase |-> phase, suggestedPath |-> suggestedPath, isDir |-> isDir, i |-> i,
     failure |-> failure]

\* callback(err, path) of getFreePath
freePathCallback(err, path) == [op |-> "getFreePath", err |-> err, path |-> path]

freePathUnchanged ==
    UNCHANGED <<fileProtocolPlugins, index, fileEntries, barrierVars, watchVars, doNotRemove,
                entryStat, contents, disk>>

getFreePath(suggestedPath) ==
    /\ freePathSearch.phase \in {"none", "ended"}
    /\ freePathSearch' = search("stat", suggestedPath, FALSE, 0, NoError)
    /\ fired' = <<>>
    /\ called' = <<>>
    /\ freePathUnchanged

\* the callback of this._impl.stat: err is the failure of the backend, NoError when the
\* backend answers from the disk
freePathStatCompleted(err) ==
    /\ freePathSearch.phase = "stat"
    /\ LET suggestedPath == freePathSearch.suggestedPath
           found == statIsDirectory(suggestedPath) \/ statIsFile(suggestedPath)
       IN  IF err = NoError /\ found
           THEN \* the loop starts and awaits the first probe
                /\ freePathSearch' = search("probing", suggestedPath,
                                            statIsDirectory(suggestedPath), 1, NoError)
                /\ called' = <<>>
           ELSE IF err = NoError
           THEN \* nothing there: err === FileSystemError.NOT_FOUND
                /\ freePathSearch' = search("ended", suggestedPath, FALSE, 0, NoError)
                /\ called' = <<freePathCallback(NoError, suggestedPath)>>
           ELSE /\ freePathSearch' = search("ended", suggestedPath, FALSE, 0, err)
                /\ called' = <<freePathCallback(err, Null)>>
    /\ fired' = <<>>
    /\ freePathUnchanged

\* the promise of existsAsync(newPath) settles: rejected with err, or, with NoError,
\* resolved with what is on the disk
freePathExistsCompleted(err) ==
    /\ freePathSearch.phase = "probing"
    /\ LET suggestedPath == freePathSearch.suggestedPath
           isDir == freePathSearch.isDir
           i == freePathSearch.i
           newPath == _getNewPath(suggestedPath, isDir, i)
       IN  IF err # NoError
           THEN \* await throws in the async callback: its promise rejects, unobserved
                /\ freePathSearch' = search("ended", suggestedPath, isDir, i, err)
                /\ called' = <<>>
           ELSE IF candidateFree(existsAsync(newPath))
           THEN /\ freePathSearch' = search("ended", suggestedPath, isDir, i, NoError)
                /\ called' = <<freePathCallback(NoError, newPath)>>
           ELSE IF i + 1 < MAX_DEDUPE_NUMBER
           THEN /\ freePathSearch' = search("probing", suggestedPath, isDir, i + 1, NoError)
                /\ called' = <<>>
           ELSE /\ freePathSearch' = search("ended", suggestedPath, isDir, i + 1, NoError)
                /\ called' = <<freePathCallback(TOO_MANY_ENTRIES, Null)>>
    /\ fired' = <<>>
    /\ freePathUnchanged

(***************************************************************************)
(* Calls of _normalizePath                                                 *)
(***************************************************************************)
\* a call of _normalizePath(path, isDirectory), and a second call on its result: result
\* and again are the paths returned, Invalid for a call that throws; again is Null when
\* there is no result to normalize
normalizePathCalled(path, isDirectory) ==
    /\ Idle
    /\ called = <<>>      \* a behaviour is one call
    /\ LET result == _normalizePath(path, isDirectory)
       IN  called' = <<[op |-> "_normalizePath", path |-> path, isDirectory |-> isDirectory,
                        result |-> result,
                        again |-> IF result = Invalid THEN Null
                                  ELSE _normalizePath(result, isDirectory)]>>
    /\ fired' = <<>>
    /\ UNCHANGED <<fileEntries, lookupVars, barrierVars, watchVars, index, doNotRemove,
                   entryStat, contents, disk>>

\* no getFreePath call is under way
NoSearch == [phase |-> "none"]

(***************************************************************************)
(* Specifications                                                          *)
(***************************************************************************)
Errors == {NoError, BackendError}
WatchablePaths == {P, PD, PDE}          \* the directories the clients watch
LookedUpFiles == {PDA}                  \* the files the clients look up and pin
VolatilePaths == {PN}                   \* the paths other programs create and delete
MaxMtime == 2
ReportedChanges ==                      \* the (path, stat.mtime) pairs the backend reports
    {<<Null, NoStat>>, <<PA, NoStat>>, <<PA, 1>>, <<PA, MaxMtime>>, <<P, NoStat>>,
     <<PNoSlash, NoStat>>, <<Q, NoStat>>}

\* Spec: the watched roots, the watch requests and the index, from a new FileSystem
Init ==
    /\ activeChangeCount = 0
    /\ externalChanges = <<>>
    /\ replay = <<>>
    /\ inListener = FALSE
    /\ handled = <<>>
    /\ nextChangeId = 0
    /\ pendingListings = <<>>
    /\ copies = <<>>
    /\ watchedRoots = <<>>
    /\ watchRequests = <<>>
    /\ nextRootId = 0
    /\ backendCalls = <<>>
    /\ completing = NoRequest
    /\ index = {}
    /\ doNotRemove = {}
    /\ entryStat = [e \in EntryPaths |-> NoStat]
    /\ contents = [d \in DirPaths |-> NoContents]
    /\ disk = {P, PA, PD, Q, QB}
    /\ fileEntries = index \cap FilePaths
    /\ fileProtocolPlugins = defaultAdapters
    /\ freePathSearch = NoSearch
    /\ fired = <<>>
    /\ called = <<>>

Next ==
    \/ \E path \in LookedUpFiles : getFileForPath(path)
    \/ \E path \in LookedUpFiles : alwaysIndex(path)
    \/ \E path \in WatchablePaths : watch(path)
    \/ \E path \in WatchablePaths : unwatch(path)
    \/ \E err \in Errors : requestCompleted(err)
    \/ _unwatchAll

Spec == Init /\ [][Next]_vars

\* SpecQueue: the queue of watch requests, the requestCb of a request taken in its two
\* parts, so that the client's callback calls watch and unwatch before the finally block
QueuePaths == {P, PD}
NextQueue ==
    \/ \E path \in QueuePaths : watch(path)
    \/ \E path \in QueuePaths : unwatch(path)
    \/ completing = NoRequest /\ _unwatchAll
    \/ _unwatchAllAnsweredAtOnce
    \/ \E err \in Errors, threw \in BOOLEAN : requestCb(err, threw)
    \/ requestCbFinally

SpecQueue == Init /\ [][NextQueue]_vars

\* SpecQueueFair: the queue of watch requests of one directory, with a backend that
\* completes every call it was given and a requestCb that runs to its end once entered
FairQueuePaths == {P}
NextQueueFair ==
    \/ \E path \in FairQueuePaths : watch(path)
    \/ \E path \in FairQueuePaths : unwatch(path)
    \/ completing = NoRequest /\ _unwatchAll
    \/ _unwatchAllAnsweredAtOnce
    \/ \E err \in Errors, threw \in BOOLEAN : requestCb(err, threw)
    \/ requestCbFinally

SpecQueueFair ==
    /\ Init
    /\ [][NextQueueFair]_vars
    /\ WF_vars(\E err \in Errors, threw \in BOOLEAN : requestCb(err, threw))
    /\ WF_vars(requestCbFinally)

\* SpecChange: the change barrier and the external changes, with /p/ watched and listed
InitChange ==
    /\ activeChangeCount = 0
    /\ externalChanges = <<>>
    /\ replay = <<>>
    /\ inListener = FALSE
    /\ handled = <<>>
    /\ nextChangeId = 0
    /\ pendingListings = <<>>
    /\ copies = <<>>
    /\ watchedRoots = <<[path |-> P, id |-> 0, status |-> ACTIVE]>>
    /\ watchRequests = <<>>
    /\ nextRootId = 1
    /\ backendCalls = <<>>
    /\ completing = NoRequest
    /\ index = {P, PA, PD, Q, QB}
    /\ doNotRemove = {}
    /\ entryStat = [e \in EntryPaths |-> IF e = PA THEN 1 ELSE NoStat]
    /\ contents = [d \in DirPaths |-> IF d = P THEN {PA, PD} ELSE NoContents]
    /\ disk = {P, PA, PD, Q, QB}
    /\ fileEntries = index \cap FilePaths
    /\ fileProtocolPlugins = defaultAdapters
    /\ freePathSearch = NoSearch
    /\ fired = <<>>
    /\ called = <<>>

NextChange ==
    \/ _beginChange
    \/ activeChangeCount > 0 /\ _endChange
    \/ \E change \in ReportedChanges : _enqueueExternalChange(change[1], change[2])
    \/ replayNext
    \/ replayEnd
    \/ \E i \in 1..MaxListings : listingCompleted(i)
    \/ \E path \in VolatilePaths : externalDiskChange(path)

SpecChange == InitChange /\ [][NextChange]_vars

\* SpecUnmatched: as SpecChange, with clients that may call _endChange without a
\* _beginChange before it
UnmatchedReportedChanges == {<<Null, NoStat>>, <<PA, MaxMtime>>}

NextUnmatched ==
    \/ _beginChange
    \/ _endChange
    \/ Idle /\ \E change \in UnmatchedReportedChanges :
          _enqueueExternalChange(change[1], change[2])
    \/ replayNext
    \/ replayEnd

SpecUnmatched == InitChange /\ [][NextUnmatched]_vars

\* SpecClear: the handlers that clear cached data (external changes, directory diffs, the
\* watchers going offline) and the unwatch of the root /p/, with /p/ watched and listed
ClearReportedChanges == {<<Null, NoStat>>, <<PA, NoStat>>, <<P, NoStat>>}

NextClear ==
    \/ unwatch(P)
    \/ \E err \in Errors : requestCompleted(err)
    \/ _unwatchAll
    \/ Idle /\ \E change \in ClearReportedChanges : _enqueueExternalChange(change[1], change[2])
    \/ replayNext
    \/ replayEnd
    \/ \E i \in 1..MaxListings : listingCompleted(i)
    \/ \E path \in VolatilePaths : externalDiskChange(path)

SpecClear == InitChange /\ [][NextClear]_vars

\* SpecChangeAsync: as SpecChange, with a backend that calls back (reports changes,
\* completes mutations) from the event loop only; a listener may still start a mutation
NextChangeAsync ==
    \/ _beginChange
    \/ Idle /\ activeChangeCount > 0 /\ _endChange
    \/ Idle /\ \E change \in ReportedChanges : _enqueueExternalChange(change[1], change[2])
    \/ replayNext
    \/ replayEnd
    \/ \E i \in 1..MaxListings : listingCompleted(i)
    \/ \E path \in VolatilePaths : externalDiskChange(path)

SpecChangeAsync == InitChange /\ [][NextChangeAsync]_vars

\* SpecOnline: as Spec, with a backend whose watchers never go offline
NextOnline ==
    \/ \E path \in LookedUpFiles : getFileForPath(path)
    \/ \E path \in LookedUpFiles : alwaysIndex(path)
    \/ \E path \in WatchablePaths : watch(path)
    \/ \E path \in WatchablePaths : unwatch(path)
    \/ \E err \in Errors : requestCompleted(err)

SpecOnline == Init /\ [][NextOnline]_vars

\* SpecCopy: copies of the file /p/a to /p/n and of the directory /p/d/ to /p/c/, the only
\* mutations, with /p/ watched and listed and the backend reporting changes
CopiedPaths == {<<PA, PN>>, <<PD, PC>>}
CopyReportedChanges == {<<PA, MaxMtime>>, <<P, NoStat>>}

NextCopy ==
    \/ \E c \in CopiedPaths : copy(c[1], c[2])
    \/ \E i \in 1..MaxCopies : \E err \in Errors : \E throws \in BOOLEAN :
          copyCompleted(i, err, throws)
    \/ \E i \in 1..MaxCopies : copyListingCompleted(i)
    \/ Idle /\ \E change \in CopyReportedChanges : _enqueueExternalChange(change[1], change[2])
    \/ replayNext
    \/ replayEnd
    \/ \E i \in 1..MaxListings : listingCompleted(i)

SpecCopy == InitChange /\ [][NextCopy]_vars

\* SpecNormalize: _normalizePath on every absolute path of up to MaxPathLen characters
MaxPathLen == 6
PathChars == {"/", ".", "a", ":"}
AbsolutePaths ==
    {path \in UNION {[1..n -> PathChars] : n \in 1..MaxPathLen} : isAbsolutePath(path)}

NextNormalize ==
    \E path \in AbsolutePaths : \E isDirectory \in BOOLEAN : normalizePathCalled(path, isDirectory)

SpecNormalize == Init /\ [][NextNormalize]_vars

\* SpecLookup: getFileForPath and getDirectoryForPath, from a new FileSystem, on paths
\* of which several normalize to the same path
LookupPaths ==
    {<<"/", "a">>, <<"/", "a", "/">>, <<"/", "/", "a">>, <<"/", "b", "/", ".", ".", "/", "a">>,
     <<"/", "b">>, <<"/", "b", "/">>, <<"/", "a", "/", "b">>, <<"/", "a", "/", "/", "b", "/">>}

NextLookup ==
    \/ \E path \in LookupPaths : getFileForPath(path)
    \/ \E path \in LookupPaths : getDirectoryForPath(path)

SpecLookup == Init /\ [][NextLookup]_vars

\* SpecAdapters: registerProtocolAdapter, getFileForPath and getDirectoryForPath on URLs
\* and on a local path
AdapterPaths == {URLA, URLB, <<"/", "a">>}

NextAdapters ==
    \/ \E protocol \in Protocols \cup {NoProtocol} : \E a \in Adapters :
          registerProtocolAdapter(protocol, a)
    \/ \E path \in AdapterPaths : getFileForPath(path)
    \/ \E path \in AdapterPaths : getDirectoryForPath(path)

SpecAdapters == Init /\ [][NextAdapters]_vars

\* SpecFreePath: getFreePath on a directory and on a file, over disks where the path is
\* there or not and some of its copies are
FreeDir == <<"/", "a", "/", "b", "/", "d", "i", "r">>
FreeFile == <<"/", "a", "/", "b", "/", "t", "e", "s", "t", ".", "h", "t", "m", "l">>
FreePaths == {FreeDir, FreeFile}
CopySets ==
    {{}, {1}, {1, 2}, {2}, 1..(MAX_DEDUPE_NUMBER - 2), 1..(MAX_DEDUPE_NUMBER - 1),
     1..MAX_DEDUPE_NUMBER}

\* the disk with the directory FreeDir or the file FreeFile, when present, and the
\* copies of it that S numbers
diskWith(isDir, present, S) ==
    IF isDir
    THEN (IF present THEN {_ensureTrailingSlash(FreeDir)} ELSE {})
            \cup {_ensureTrailingSlash(_getNewPath(FreeDir, TRUE, i)) : i \in S}
    ELSE (IF present THEN {FreeFile} ELSE {})
            \cup {_getNewPath(FreeFile, FALSE, i) : i \in S}

InitFreePath ==
    /\ activeChangeCount = 0
    /\ externalChanges = <<>>
    /\ replay = <<>>
    /\ inListener = FALSE
    /\ handled = <<>>
    /\ nextChangeId = 0
    /\ pendingListings = <<>>
    /\ copies = <<>>
    /\ watchedRoots = <<>>
    /\ watchRequests = <<>>
    /\ nextRootId = 0
    /\ backendCalls = <<>>
    /\ completing = NoRequest
    /\ index = {}
    /\ doNotRemove = {}
    /\ entryStat = [e \in EntryPaths |-> NoStat]
    /\ contents = [d \in DirPaths |-> NoContents]
    /\ \E isDir \in BOOLEAN : \E present \in BOOLEAN : \E S \in CopySets :
          disk = diskWith(isDir, present, S)
    /\ fileEntries = {}
    /\ fileProtocolPlugins = defaultAdapters
    /\ freePathSearch = NoSearch
    /\ fired = <<>>
    /\ called = <<>>

NextFreePath ==
    \/ \E suggestedPath \in FreePaths : getFreePath(suggestedPath)
    \/ \E err \in Errors : freePathStatCompleted(err)
    \/ \E err \in Errors : freePathExistsCompleted(err)

SpecFreePath == InitFreePath /\ [][NextFreePath]_vars

(***************************************************************************)
(* Properties of the change barrier (SpecChange)                           *)
(***************************************************************************)
InReportOrder(ids) == \A i, j \in 1..Len(ids) : i < j => ids[i] <= ids[j]

\* C1: while _activeChangeCount is non-zero no reported change is passed to
\* _handleExternalChange, and when the replay started by the count's return to zero
\* ends, every queued change has been handled, in the order of the reports.
C1_BarrierDefersChanges ==
    [][/\ replayNext => activeChangeCount = 0
       /\ (replayEnd /\ replay' = <<>>) =>
             /\ \A i \in 1..Len(externalChanges) : externalChanges[i].id \in Range(handled)
             /\ InReportOrder(handled)]_vars

\* C2: every reported change record is passed to _handleExternalChange exactly once:
\* it is never handled twice, and a record that is no longer queued has been handled.
C2_HandledExactlyOnce ==
    /\ \A i, j \in 1..Len(handled) : i # j => handled[i] # handled[j]
    /\ \A id \in 0..(nextChangeId - 1) :
          \/ id \in Range(handled)
          \/ \E i \in 1..Len(externalChanges) : externalChanges[i].id = id

\* C3: a change event caused by an externally reported change is triggered only while
\* _activeChangeCount is zero.
C3_ExternalEventsOutsideBarrier ==
    \A i \in 1..Len(fired) : fired[i].cause = "external" => fired[i].count = 0

(***************************************************************************)
(* Properties of the watched roots (Spec, SpecOnline)                      *)
(***************************************************************************)
Watching(root) == root.status \in {STARTING, ACTIVE}

\* C4: no two registered roots are both STARTING or ACTIVE with the path of one a
\* prefix of the path of the other.
C4_NoNestedWatchedRoots ==
    \A i, j \in 1..Len(watchedRoots) :
        (i # j /\ Watching(watchedRoots[i]) /\ Watching(watchedRoots[j]))
            => ~indexOfIsZero(watchedRoots[j].path, watchedRoots[i].path)

\* a registered root, STARTING or ACTIVE, whose path is a prefix of fullPath
WatchedAncestor(fullPath) ==
    \E i \in 1..Len(watchedRoots) :
        Watching(watchedRoots[i]) /\ indexOfIsZero(fullPath, watchedRoots[i].path)

\* a registered root, STARTING or ACTIVE, whose path lies under fullPath
WatchedDescendant(fullPath) ==
    \E i \in 1..Len(watchedRoots) :
        /\ Watching(watchedRoots[i])
        /\ watchedRoots[i].path # fullPath
        /\ indexOfIsZero(watchedRoots[i].path, fullPath)

OverlapRefused(fullPath) ==
    /\ UNCHANGED <<watchedRoots, watchRequests>>
    /\ Len(called') = 1
    /\ called'[1].op = "watch"
    /\ called'[1].path = fullPath
    /\ called'[1].err \in {ParentWatched, ChildWatched}

\* C5: watch(entry) is refused with an overlap error, registering nothing and asking the
\* backend nothing, when a STARTING or ACTIVE root's path is a prefix of entry's path.
C5_WatchUnderWatchedAncestorRefused ==
    [][\A path \in WatchablePaths :
          (watch(path) /\ WatchedAncestor(path)) => OverlapRefused(path)]_vars

\* C6: watch(entry) is refused with an overlap error, the registry unchanged and the
\* backend asked nothing, when a STARTING or ACTIVE root's path lies under entry's path.
C6_WatchOverWatchedDescendantRefused ==
    [][\A path \in WatchablePaths :
          (watch(path) /\ WatchedDescendant(path)) => OverlapRefused(path)]_vars

\* C7: watch(entry) on a non-overlapping root registers it STARTING, with its watchPath
\* request queued; a root is never ACTIVE while its watchPath request is queued or in
\* flight, and becomes ACTIVE only by the successful completion of that request; when
\* the backend reports failure the registration at the path is removed and the error
\* is passed to watch's callback.
C7_WatchLifecycle ==
    [][/\ \A path \in WatchablePaths :
             (watch(path) /\ ~WatchedAncestor(path) /\ ~WatchedDescendant(path)) =>
                 /\ rootIn(watchedRoots', path) =
                        [path |-> path, id |-> nextRootId, status |-> STARTING]
                 /\ watchRequests' = Append(watchRequests,
                                            request("watchPath", path, nextRootId, "watch"))
                 /\ called' = <<>>
       /\ \A i \in 1..Len(watchedRoots') : \A j \in 1..Len(watchRequests') :
             (watchRequests'[j].kind = "watchPath" /\ watchRequests'[j].id = watchedRoots'[i].id)
                 => watchedRoots'[i].status # ACTIVE
       /\ \A i \in 1..Len(watchedRoots') :
             (/\ watchedRoots'[i].status = ACTIVE
              /\ ~\E k \in 1..Len(watchedRoots) :
                     watchedRoots[k].id = watchedRoots'[i].id /\ watchedRoots[k].status = ACTIVE)
                 => /\ requestCompleted(NoError)
                    /\ Head(watchRequests) =
                         request("watchPath", watchedRoots'[i].path, watchedRoots'[i].id, "watch")
       /\ (requestCompleted(BackendError) /\ Head(watchRequests).kind = "watchPath") =>
             /\ rootIn(watchedRoots', Head(watchRequests).path) = NoRoot
             /\ called' = <<callback("watch", Head(watchRequests).path,
                                     Head(watchRequests).id, BackendError)>>]_vars

\* C7 witness: the successful completion of a watch has made its root ACTIVE
C7_Witness ==
    /\ called = <<callback("watch", P, 0, NoError)>>
    /\ rootAt(P) = [path |-> P, id |-> 0, status |-> ACTIVE]

\* C8: when watch's callback is called without an error, the registry holds that
\* WatchedRoot under its path, ACTIVE.
C8_WatchSuccessMeansActive ==
    \A c \in 1..Len(called) :
        (called[c].op = "watch" /\ called[c].err = NoError)
            => rootAt(called[c].path) =
                   [path |-> called[c].path, id |-> called[c].id, status |-> ACTIVE]

\* C9: from unwatch(entry) on a registered root to the completion of its backend
\* unwatch, the root stays in the registry, INACTIVE.
C9_UnwatchedRootStaysInactive ==
    \A j \in 1..Len(watchRequests) :
        (watchRequests[j].kind = "unwatchPath" /\ watchRequests[j].origin = "unwatch")
            => rootAt(watchRequests[j].path) =
                   [path |-> watchRequests[j].path, id |-> watchRequests[j].id,
                    status |-> INACTIVE]

\* the completion of the backend unwatch that unwatch(entry) asked for
UnwatchCompletes ==
    /\ \E err \in Errors : requestCompleted(err)
    /\ Head(watchRequests).kind = "unwatchPath"
    /\ Head(watchRequests).origin = "unwatch"

\* C10 as claimed: when the backend unwatch for root R completes, every indexed entry
\* under R's path is removed from the index and every other indexed entry remains.
C10_UnwatchPurgesSubtree ==
    [][UnwatchCompletes =>
          index' = {e \in index : ~indexOfIsZero(e, Head(watchRequests).path)}]_vars

\* C10 amended: when the backend unwatch for root R completes, every indexed entry
\* under R's path that was not given to alwaysIndex is removed from the index, and
\* every other indexed entry remains.
C10_UnwatchPurgesUnpinnedSubtree ==
    [][UnwatchCompletes =>
          index' = {e \in index : ~indexOfIsZero(e, Head(watchRequests).path)
                                  \/ e \in doNotRemove}]_vars

\* C10 witness: the unwatch of /p/d/e/ has completed and the unpinned /p/d/a, which is
\* not under it, is still indexed
C10_Witness ==
    /\ Len(called) = 1
    /\ called[1].op = "unwatch"
    /\ called[1].path = PDE
    /\ called[1].err = NoError
    /\ PDA \in index
    /\ PDA \notin doNotRemove

\* C11: when the backend unwatch that unwatch(entry) asked for fails, the root is still
\* registered, with the status it had before the unwatch call (which was not INACTIVE,
\* the status unwatch gives it), and the failure is passed to unwatch's callback.
C11_UnwatchFailureRollsBack ==
    [][(requestCompleted(BackendError) /\ Head(watchRequests).kind = "unwatchPath"
                                       /\ Head(watchRequests).origin = "unwatch") =>
          /\ rootIn(watchedRoots', Head(watchRequests).path) # NoRoot
          /\ rootIn(watchedRoots', Head(watchRequests).path).id = Head(watchRequests).id
          /\ rootIn(watchedRoots', Head(watchRequests).path).status # INACTIVE
          /\ called' = <<callback("unwatch", Head(watchRequests).path,
                                  Head(watchRequests).id, BackendError)>>]_vars

\* C12: unwatch(entry) for a path with no registered root calls back with
\* ROOT_NOT_WATCHED and changes nothing: no request is enqueued, and the registry and
\* the index are unchanged.
C12_UnwatchOfUnregisteredRoot ==
    [][\A path \in WatchablePaths :
          (unwatch(path) /\ rootAt(path) = NoRoot) =>
              /\ called' = <<callback("unwatch", path, NoId, ROOT_NOT_WATCHED)>>
              /\ UNCHANGED <<watchedRoots, watchRequests, index>>]_vars

\* C12 witness: unwatch of /p/d/, not registered while /p/ is, has called back
C12_Witness ==
    /\ called = <<callback("unwatch", PD, NoId, ROOT_NOT_WATCHED)>>
    /\ rootAt(PD) = NoRoot
    /\ rootAt(P) # NoRoot

(***************************************************************************)
(* Properties of the handling of external changes (SpecChange)             *)
(***************************************************************************)
\* a registered root, ACTIVE, whose path is a prefix of path
ActiveRootOver(path) ==
    \E i \in 1..Len(watchedRoots) :
        watchedRoots[i].status = ACTIVE /\ indexOfIsZero(path, watchedRoots[i].path)

\* the re-listing of /p/ that a reported change asked for completes while /p/ is under an
\* ACTIVE root and the file /p/n, which the index has never seen, exists on disk
ListsCreatedFile(i) ==
    /\ listingCompleted(i)
    /\ pendingListings[i].directory = P
    /\ pendingListings[i].cause = "external"
    /\ ActiveRootOver(P)
    /\ PN \in disk
    /\ PN \notin index

\* C13 as claimed: with /p/ watched and ACTIVE, when the file /p/n is created externally
\* and the backend reports a change for /p/, exactly one change event fires, for /p/,
\* with added = [n] and removed = [].
C13_ExternalCreateReported ==
    [][\A i \in 1..MaxListings :
          ListsCreatedFile(i) => fired' = <<changeEvent(P, {PN}, {}, "external")>>]_vars

\* C13 amended: the same, when the listing of /p/ was cached at the time the change was
\* handled (without a cached listing there is nothing to diff against).
C13_ExternalCreateReportedAfterListing ==
    [][\A i \in 1..MaxListings :
          (ListsCreatedFile(i) /\ pendingListings[i].oldContents # NoContents)
              => fired' = <<changeEvent(P, {PN}, {}, "external")>>]_vars

\* C13 witness: the event for /p/ with the created file as the only added entry has fired
C13_Witness ==
    /\ Len(fired) = 1
    /\ fired[1].entry = P
    /\ fired[1].added = {PN}
    /\ fired[1].removed = {}
    /\ fired[1].cause = "external"

\* C14: handling an external change with a null path clears the cached data of every
\* entry in the index and fires exactly one change event, whose entry argument is null.
C14_WholesaleChange ==
    [][(replayNext /\ replayChange.path = Null) =>
          /\ \A e \in index : entryStat'[e] = NoStat
          /\ \A d \in index \cap DirPaths : contents'[d] = NoContents
          /\ Len(fired') = 1
          /\ fired'[1].entry = Null]_vars

\* C14 witness: the wholesale event has fired and the stat of /p/a and the listing of
\* /p/, cached at the start, are gone
C14_Witness ==
    /\ Len(fired) = 1
    /\ fired[1].entry = Null
    /\ fired[1].cause = "external"
    /\ entryStat[PA] = NoStat
    /\ contents[P] = NoContents

\* the change record the replay has just passed to _handleExternalChange, when no
\* listener has run since
JustHandled(change) ==
    /\ replay # <<>>
    /\ ~inListener
    /\ replay[Len(replay)].k \in 1..Len(externalChanges)
    /\ externalChanges[replay[Len(replay)].k] = change

\* C15: an external change for an indexed file whose incoming stat.mtime is less than or
\* equal to the cached mtime changes nothing: the cached data and stat are unchanged and
\* no change event fires (so the same record applied a second time changes nothing).
C15_StaleFileChangeIgnored ==
    [][(/\ replayNext
        /\ replayChange.path \in FilePaths \cap index
        /\ replayChange.stat # NoStat
        /\ entryStat[replayChange.path] # NoStat
        /\ replayChange.stat <= entryStat[replayChange.path]) =>
          /\ UNCHANGED <<entryStat, contents>>
          /\ fired' = <<>>]_vars

\* C15 witness: two records for /p/a with the same mtime were queued; the first has
\* refreshed the cached stat and the second has just been handled without an event
C15_Witness ==
    \E j \in 2..Len(externalChanges) :
        /\ JustHandled(externalChanges[j])
        /\ replay[Len(replay)].k = j
        /\ externalChanges[j].path = PA
        /\ externalChanges[j].stat = MaxMtime
        /\ externalChanges[j - 1].path = PA
        /\ externalChanges[j - 1].stat = MaxMtime
        /\ entryStat[PA] = MaxMtime
        /\ fired = <<>>

\* an external change for an indexed file is handled
FileChange == replayNext /\ replayChange.path \in FilePaths \cap index

\* C16 as claimed: for an indexed file, an external change refreshes the cached stat and
\* fires a change event only when the incoming stat.mtime is strictly newer than the
\* cached mtime.
C16_FileRefreshedOnlyWhenNewer ==
    [][(FileChange /\ (fired' # <<>> \/ entryStat' # entryStat)) =>
          /\ replayChange.stat # NoStat
          /\ entryStat[replayChange.path] # NoStat
          /\ replayChange.stat > entryStat[replayChange.path]]_vars

\* C16 amended: for an indexed file, an external change refreshes the cached stat and
\* fires a change event only when the incoming stat.mtime is strictly newer than the
\* cached mtime or when the change carries no stat or no stat is cached; it does so in
\* each of these cases.
C16_FileRefreshedUnlessKnownStale ==
    [][FileChange =>
          IF \/ replayChange.stat = NoStat
             \/ entryStat[replayChange.path] = NoStat
             \/ replayChange.stat > entryStat[replayChange.path]
          THEN /\ entryStat'[replayChange.path] = replayChange.stat
               /\ fired' = <<changeEvent(replayChange.path, NoSet, NoSet, "external")>>
          ELSE /\ fired' = <<>>
               /\ UNCHANGED entryStat]_vars

\* C16 witness: a change for /p/a that carried no stat has fired the event for /p/a
C16_Witness ==
    /\ Len(fired) = 1
    /\ fired[1].entry = PA
    /\ entryStat[PA] = NoStat
    /\ \E j \in 1..Len(externalChanges) :
          /\ replay # <<>>
          /\ replay[Len(replay)].k = j
          /\ externalChanges[j].path = PA
          /\ externalChanges[j].stat = NoStat

\* C17: an external change for a path that has no entry in the index is ignored: no
\* change event fires, no entry is created, no listing is asked for, and the index and
\* every entry's cached data are unchanged.
C17_UnknownPathIgnored ==
    [][(replayNext /\ replayChange.path # Null /\ replayChange.path \notin index) =>
          /\ fired' = <<>>
          /\ UNCHANGED <<index, entryStat, contents, pendingListings>>]_vars

\* C17 witness: the change for /p, which is not the path of an entry, has just been
\* handled; nothing fired and no listing is pending
C17_Witness ==
    /\ \E j \in 1..Len(externalChanges) :
          JustHandled(externalChanges[j]) /\ externalChanges[j].path = PNoSlash
    /\ PNoSlash \notin index
    /\ fired = <<>>
    /\ pendingListings = <<>>

\* C18: an external change for a directory under an ACTIVE root whose re-listing yields
\* zero added and zero removed entries still fires a change event for that directory.
C18_EmptyDiffStillFires ==
    [][\A i \in 1..MaxListings :
          (/\ listingCompleted(i)
           /\ pendingListings[i].cause = "external"
           /\ ActiveRootOver(pendingListings[i].directory)
           /\ pendingListings[i].oldContents # NoContents
           /\ pendingListings[i].oldContents = listing(pendingListings[i].directory))
              => fired' = <<changeEvent(pendingListings[i].directory, {}, {}, "external")>>]_vars

\* C18 witness: the event for /p/ with no added and no removed entry has fired
C18_Witness ==
    /\ Len(fired) = 1
    /\ fired[1].entry = P
    /\ fired[1].added = {}
    /\ fired[1].removed = {}
    /\ fired[1].cause = "external"

(***************************************************************************)
(* Properties of copy (SpecCopy)                                           *)
(***************************************************************************)
\* C19: after a successful backend copy, of a file or of a directory, copy diffs the
\* parent directory of the destination, and (that directory being under an ACTIVE root)
\* a change event for it fires before copy's _endChange, while the count is not zero.
C19_CopyDiffsParentOfDestination ==
    [][\A i \in 1..MaxCopies :
          (copyListingCompleted(i) /\ ActiveRootOver(parentPath(copies[i].dst))) =>
              /\ copies[i].directory = parentPath(copies[i].dst)
              /\ Len(fired') = 1
              /\ fired'[1].entry = parentPath(copies[i].dst)
              /\ fired'[1].count > 0]_vars

\* C20: every copy call releases the barrier it opened exactly once when it is over:
\* copy being the only mutation, the count is the number of copy calls in progress.
C20_CopyReleasesBarrier == activeChangeCount = Len(copies)

(***************************************************************************)
(* Properties of _normalizePath (SpecNormalize)                            *)
(***************************************************************************)
\* the calls of _normalizePath that returned a path
Normalized == {i \in 1..Len(called) : called[i].op = "_normalizePath"
                                     /\ called[i].result # Invalid}

\* C24: normalization is idempotent: normalizing the path that _normalizePath(p, d)
\* returned, with the same d, succeeds and returns the same path.
C24_NormalizeIdempotent ==
    \A i \in Normalized : called[i].again = called[i].result

endsWithSlash(path) == Len(path) > 0 /\ path[Len(path)] = "/"

\* C25: _normalizePath(p, true) ends with exactly one separator and
\* _normalizePath(p, false) does not end with a separator.
C25_TrailingSeparator ==
    \A i \in Normalized :
        LET result == called[i].result
        IN  IF called[i].isDirectory
            THEN /\ endsWithSlash(result)
                 /\ ~endsWithSlash(SubSeq(result, 1, Len(result) - 1))
            ELSE ~endsWithSlash(result)

RECURSIVE climbsAboveRoot(_, _)
\* walking the names after the root, a ".." is met with no name left to go back over
climbsAboveRoot(names, depth) ==
    IF names = <<>> THEN FALSE
    ELSE IF Head(names) = <<".", ".">>
         THEN depth = 0 \/ climbsAboveRoot(Tail(names), depth - 1)
         ELSE climbsAboveRoot(Tail(names), depth + 1)

\* the names of a path after its root: the parts between the groups of slashes
namesOf(path) ==
    LET parts == [k \in 1..(Len(path) + 1) |->
                     {i \in k..Len(path) : \A j \in k..i : path[j] # "/"}]
        starts == {k \in 1..Len(path) : path[k] # "/" /\ (k = 1 \/ path[k - 1] = "/")}
        RECURSIVE from(_)
        from(k) ==
            IF \A n \in starts : n < k THEN <<>>
            ELSE LET n == Min({m \in starts : m >= k})
                     e == CHOOSE i \in parts[n] : \A j \in parts[n] : j <= i
                 IN  <<SubSeq(path, n, e)>> \o from(e + 1)
    IN  from(IF path[1] = "/" THEN 1 ELSE 3)

C27_EquivalentPathsSameEntry ==
    [][\A path \in LookupPaths :
          /\ (getFileForPath(path) /\ _normalizePath(path, FALSE) \in index) =>
                /\ ~called'[1].constructed
                /\ called'[1].entry = _normalizePath(path, FALSE)
                /\ UNCHANGED <<index, fileEntries>>
          /\ (getDirectoryForPath(path) /\ _normalizePath(path, TRUE) \in index) =>
                /\ ~called'[1].constructed
                /\ called'[1].entry = _normalizePath(path, TRUE)
                /\ UNCHANGED <<index, fileEntries>>]_vars

\* C27 witness: getFileForPath("//a") has returned the entry that a lookup of an
\* equivalent path had constructed for /a
C27_Witness ==
    /\ Len(called) = 1
    /\ called[1].op = "getFileForPath"
    /\ called[1].path = <<"/", "/", "a">>
    /\ called[1].entry = <<"/", "a">>
    /\ ~called[1].constructed

\* C28: getFileForPath(p) returns a File and getDirectoryForPath(p) returns a Directory.
C28_LookupReturnsItsKind ==
    \A i \in 1..Len(called) :
        /\ (called[i].op = "getFileForPath" /\ called[i].entry # Invalid) => called[i].isFile
        /\ called[i].op = "getDirectoryForPath" => ~called[i].isFile

\* the priorities of a list of adapters do not increase
descending(adapters) ==
    \A i, j \in 1..Len(adapters) :
        i < j => priorityOrZero(adapters[i]) >= priorityOrZero(adapters[j])

\* new is old with a put in after the adapters of old whose priority is not lower
insertedAfterEquals(old, a, new) ==
    \E n \in 0..Len(old) :
        /\ new = SubSeq(old, 1, n) \o <<a>> \o SubSeq(old, n + 1, Len(old))
        /\ \A i \in 1..n : priorityOrZero(old[i]) >= priorityOrZero(a)

\* C29: after every registerProtocolAdapter call the adapters of each protocol are in
\* descending order of priority (no priority counting as 0); the adapters registered
\* before keep their order, and the new adapter comes after those of equal priority.
C29_AdaptersSortedStable ==
    [][\A protocol \in Protocols : \A a \in Adapters :
          registerProtocolAdapter(protocol, a) =>
              /\ \A p \in Protocols : descending(fileProtocolPlugins'[p])
              /\ insertedAfterEquals(fileProtocolPlugins[protocol], a,
                                     fileProtocolPlugins'[protocol])
              /\ \A p \in Protocols \ {protocol} :
                    fileProtocolPlugins'[p] = fileProtocolPlugins[p]]_vars

\* C29 witness: B (no priority) and then E (priority 2) were registered for http: after
\* RemoteFile (priority 0): E is first, and B stays behind RemoteFile
C29_Witness ==
    /\ Len(fileProtocolPlugins[HTTP_PROTOCOL]) = 3
    /\ fileProtocolPlugins[HTTP_PROTOCOL][1].name = "E"
    /\ fileProtocolPlugins[HTTP_PROTOCOL][2].name = "RemoteFile"
    /\ fileProtocolPlugins[HTTP_PROTOCOL][3].name = "B"

\* the first adapter of the path's protocol whose canRead is true of the path
firstAdapterReading(path) == _getProtocolAdapter(parseUrlProtocol(path), path)

\* C30: the adapter getFileForPath(path) uses is the first adapter, in the order of the
\* list of the path's protocol, whose canRead is true of that path; no adapter is used
\* when none accepts the path.
C30_AdapterSelectedByPath ==
    \A i \in 1..Len(called) :
        (called[i].op = "getFileForPath" /\ called[i].entry # Invalid) =>
            called[i].adapter = firstAdapterReading(called[i].path).name

\* the search has ended with the callback called once
freePathAnswered ==
    /\ freePathSearch.phase = "ended"
    /\ Len(called) = 1
    /\ called[1].op = "getFreePath"

\* the name with the suffix " (copy i)", one space before it: after the name of a
\* directory, between the base name and the extension of a file
suffixedName(path, isDir, i) ==
    IF isDir THEN path \o <<" ">> \o copySuffix(i)
    ELSE pathLibJoin(dirname(path),
                     basename(path, extname(path)) \o <<" ">> \o copySuffix(i)
                        \o extname(path))

\* C21: the free path getFreePath returns for a path that exists is the path with the
\* suffix " (copy i)", separated from the name by one space: /a/b/dir (copy 1) for the
\* directory /a/b/dir, /a/b/test (copy 1).html for the file /a/b/test.html.
C21_CopySuffixForm ==
    (/\ freePathAnswered
     /\ called[1].err = NoError
     /\ freePathSearch.i >= 1)
        => called[1].path = suffixedName(freePathSearch.suggestedPath, freePathSearch.isDir,
                                         freePathSearch.i)

\* the indices of the candidates of a path that are not on the disk
freeIndices(suggestedPath, isDir) ==
    {i \in 1..(MAX_DEDUPE_NUMBER - 1) :
        /\ _ensureTrailingSlash(_getNewPath(suggestedPath, isDir, i)) \notin disk
        /\ _getNewPath(suggestedPath, isDir, i) \notin disk}

\* C22: getFreePath(p) returns p when nothing exists at p; when p exists it returns the
\* candidate of the smallest index that does not exist, and fails with TOO_MANY_ENTRIES
\* when every candidate exists.
C22_FirstFreeCandidate ==
    (freePathAnswered /\ freePathSearch.failure = NoError) =>
        LET suggestedPath == freePathSearch.suggestedPath
            isDir == _ensureTrailingSlash(suggestedPath) \in disk
        IN  IF suggestedPath \notin disk /\ ~isDir
            THEN called[1] = freePathCallback(NoError, suggestedPath)
            ELSE IF freeIndices(suggestedPath, isDir) = {}
            THEN called[1] = freePathCallback(TOO_MANY_ENTRIES, Null)
            ELSE called[1] = freePathCallback(NoError,
                                 _getNewPath(suggestedPath, isDir,
                                             Min(freeIndices(suggestedPath, isDir))))

\* C22 witness: the directory and its copies 1 and 2 exist, and copy 3 was returned
C22_Witness ==
    /\ freePathAnswered
    /\ freePathSearch.isDir
    /\ freePathSearch.i = 3
    /\ called[1].err = NoError

\* C23: when getFreePath has ended, its callback has been called once, and a failure of
\* the backend (of stat, or of an existence probe) is the callback's error.
C23_FreePathCallbackOnce ==
    freePathSearch.phase = "ended" =>
        /\ freePathAnswered
        /\ freePathSearch.failure # NoError => called[1].err = freePathSearch.failure

(***************************************************************************)
(* Further properties of the handling of external changes (SpecChange)     *)
(***************************************************************************)
\* C40: an external change reported for the indexed directory /p/ by the path /p, without
\* the trailing separator, is looked up under /p (the normalization is that of a file),
\* where the index has no entry: no directory diff starts, no change event fires, and the
\* cached data of the directory is left as it is.
C40_DirectoryWithoutSeparatorUnknown ==
    [][(/\ replayNext
        /\ replayChange.path = PNoSlash
        /\ P \in index
        /\ PNoSlash \notin index) =>
          /\ _normalizePath(replayChange.path, FALSE) = PNoSlash
          /\ fired' = <<>>
          /\ pendingListings' = pendingListings
          /\ contents'[P] = contents[P]
          /\ entryStat'[P] = entryStat[P]]_vars

\* C40 witness: the change for /p has just been handled while /p/ is indexed with its
\* listing cached: the listing is still cached and nothing fired
C40_Witness ==
    /\ \E j \in 1..Len(externalChanges) :
          JustHandled(externalChanges[j]) /\ externalChanges[j].path = PNoSlash
    /\ P \in index
    /\ contents[P] = {PA, PD}
    /\ fired = <<>>

\* C39: the facade never operates with the count of active changes below zero: an
\* _endChange without a matching _beginChange is fatal.
C39_CountNeverNegative == activeChangeCount >= 0

\* C38: the diff of a directory whose listing was cached reports as added the entries of
\* the new listing that are not in the cached one and as removed the entries of the
\* cached listing that are not in the new one: the two sets are disjoint, and an entry of
\* both listings is in neither.
C38_DiffIsSetDifference ==
    [][\A i \in 1..MaxListings :
          (/\ listingCompleted(i)
           /\ pendingListings[i].oldContents # NoContents
           /\ ActiveRootOver(pendingListings[i].directory)) =>
              LET old == pendingListings[i].oldContents
                  new == {e \in disk : parentPath(e) = pendingListings[i].directory}
              IN  /\ Len(fired') = 1
                  /\ fired'[1].added = {e \in new : e \notin old}
                  /\ fired'[1].removed = {e \in old : e \notin new}
                  /\ fired'[1].added \cap fired'[1].removed = {}
                  /\ \A e \in old \cap new :
                        e \notin fired'[1].added /\ e \notin fired'[1].removed]_vars

\* C38 witness: /p/n, listed before, was deleted externally, and the diff of /p/ has
\* reported it as the only removed entry, with nothing added
C38_Witness ==
    /\ Len(fired) = 1
    /\ fired[1].entry = P
    /\ fired[1].added = {}
    /\ fired[1].removed = {PN}
    /\ PA \in contents[P]

\* C33: an entry leaves the index only when the backend unwatch that unwatch(entry) asked
\* for, of a root whose path is a prefix of the entry's, completes: handling a wholesale
\* change, a file change, a directory diff or the watchers going offline clears cached
\* data and leaves every indexed path indexed.
C33_ClearingKeepsEntriesIndexed ==
    [][\A e \in index :
          e \notin index' =>
              /\ UnwatchCompletes
              /\ indexOfIsZero(e, Head(watchRequests).path)]_vars

\* C33 witness: /p/n, listed before, was deleted externally; the diff of /p/ has reported
\* it removed, and its entry is still in the index
C33_Witness ==
    /\ Len(fired) = 1
    /\ fired[1].entry = P
    /\ fired[1].removed = {PN}
    /\ PN \in index
    /\ PN \notin disk

(***************************************************************************)
(* Properties of the offline handling (Spec)                               *)
(***************************************************************************)
\* C32: when the backend calls the offline callback, every registered root leaves the
\* registry, an unwatch request for each is enqueued, in the order of the registry, and
\* one change event, with a null entry, fires; the completion of such an unwatch, with
\* or without an error, fires nothing and registers nothing.
C32_OfflineUnwatchesEveryRoot ==
    [][/\ _unwatchAll =>
             /\ watchedRoots' = <<>>
             /\ Len(watchRequests') = Len(watchRequests) + Len(watchedRoots)
             /\ \A i \in 1..Len(watchedRoots) :
                   watchRequests'[Len(watchRequests) + i] =
                       request("unwatchPath", watchedRoots[i].path, watchedRoots[i].id,
                               "offline")
             /\ \A j \in 1..Len(watchRequests) : watchRequests'[j] = watchRequests[j]
             /\ Len(fired') = 1
             /\ fired'[1].entry = Null
       /\ \A err \in Errors :
             (requestCompleted(err) /\ Head(watchRequests).origin = "offline") =>
                 /\ fired' = <<>>
                 /\ UNCHANGED <<watchedRoots, index>>]_vars

\* C32 witness: the watchers went offline with two roots registered: the registry is
\* empty, the two unwatch requests are queued and the wholesale event has fired
C32_Witness ==
    /\ watchedRoots = <<>>
    /\ Len(watchRequests) = 2
    /\ \A j \in 1..2 : watchRequests[j].origin = "offline"
    /\ watchRequests[1].path # watchRequests[2].path
    /\ Len(fired) = 1
    /\ fired[1].entry = Null

(***************************************************************************)
(* Properties of the protocol adapters in the lookups (SpecAdapters)       *)
(***************************************************************************)
\* the adapter with a file implementation that matches the protocol of a path, as
\* getFileForPath finds it; NoAdapter when there is none
matchingAdapter(path) ==
    LET a == _getProtocolAdapter(parseUrlProtocol(path), Undefined)
    IN  IF a # NoAdapter /\ a.fileImpl THEN a ELSE NoAdapter

C34_OneCallInFlight == Len(backendCalls) <= 1

\* C34 witness: one call is in the backend while further requests wait in the queue
C34_Witness ==
    /\ Len(backendCalls) = 1
    /\ Len(watchRequests) >= 2
    /\ backendCalls[1] = watchRequests[1]

\* C35: the requests are given to the backend in the order in which they were enqueued
\* (the queue grows at its end and loses only its head, and the call given to the backend
\* is the one of its head), and the completion of a request, with or without an error,
\* begins the next request of the queue only after the callback of the completed request
\* has run
C35_IssuedInOrderAfterCallback ==
    [][/\ \/ /\ Len(watchRequests') >= Len(watchRequests)
             /\ SubSeq(watchRequests', 1, Len(watchRequests)) = watchRequests
          \/ /\ completing # NoRequest
             /\ watchRequests # <<>>
             /\ watchRequests' = Tail(watchRequests)
       /\ backendCalls' # <<>> =>
             watchRequests' # <<>> /\ backendCalls' = <<watchRequests'[1]>>
       /\ completing' # NoRequest => backendCalls' = <<>>
       /\ (completing # NoRequest /\ completing' = NoRequest) =>
             backendCalls' = IF Len(watchRequests) > 1 THEN <<watchRequests[2]>> ELSE <<>>
      ]_vars

\* C35 witness: the callback of a request that failed has run, the next request is still
\* in the queue behind it and has not been given to the backend
C35_Witness ==
    /\ completing # NoRequest
    /\ called # <<>>
    /\ called[1].err = BackendError
    /\ Len(watchRequests) >= 2
    /\ backendCalls = <<>>

\* the requests the clients and the offline handling can enqueue
QueueRequests ==
    {request(kind[1], path, id, kind[2]) :
        kind \in {<<"watchPath", "watch">>, <<"unwatchPath", "unwatch">>,
                  <<"unwatchPath", "offline">>},
        path \in FairQueuePaths, id \in 0..(MaxWatchCalls - 1)}

\* the requests of the queue
queued == {watchRequests[i] : i \in 1..Len(watchRequests)}

\* the requests of the queue whose callback has not been called
waiting ==
    {watchRequests[i] : i \in (IF completing = NoRequest THEN 1 ELSE 2)..Len(watchRequests)}

\* C36: with a backend that calls the completion callback of every call it was given,
\* every request of the queue is given to the backend and its callback is called, also
\* behind a request whose callback throws, and the queue is empty for good once the
\* clients have no more requests
C36_EveryRequestCompleted ==
    /\ \A req \in QueueRequests :
          (req \in waiting) ~> (backendCalls = <<req>>)
    /\ \A req \in QueueRequests :
          (req \in queued) ~> (completing # NoRequest /\ completing.request = req)
    /\ <>[](watchRequests = <<>>)

\* C36 witness: the callback of a request has thrown while another request waits behind it
C36_Witness ==
    /\ completing # NoRequest
    /\ completing.threw
    /\ Len(watchRequests) >= 2

====
